---- MODULE Spec2Model ----
(***************************************************************************)
(* Hybrid log-analysis pipeline of ai-devops: sanitizer, rule engine,      *)
(* network-backed reasoning clients with their retry/backoff loop, the     *)
(* response validator and the Analyzer that orchestrates them.            *)
(*                                                                         *)
(* Text is a sequence of one-character strings.  Confidences and the       *)
(* threshold are percentages (0..100) so that the code's float comparisons *)
(* >= and > are exact integer comparisons.  Timestamps and logging calls   *)
(* carry no state and are left out.                                        *)
(***************************************************************************)
EXTENDS Integers, Sequences, FiniteSets, TLC

VARIABLES
    log,            \* req.Log, the raw request log
    enableRules,    \* Analyzer.enableRules
    threshold,      \* Engine.confidenceThreshold (percent)
    client,         \* the injected ai.Client: "openai", "gemini" or "mock"
    maxRetries,     \* AIConfig.MaxRetries
    ctx,            \* the caller's context: "active", "canceled", "deadline"
    pc,             \* position of the request: "received", "inflight",
                    \* "backoff", "done", "panic"
    sanitizedLog,   \* Analyzer.Analyze's sanitizedLog
    stats,          \* SanitizationStats of the request
    attempt,        \* loop variable of the client's retry loop
    backoff,        \* duration (seconds) of the wait in progress, 0 if none
    result,         \* the client's result variable
    lastErr,        \* the client's lastErr variable
    bodyConsumed,   \* OpenAIClient: the shared request's body reader is at EOF
    clientRet,      \* what aiClient.Analyze returned: [result, err], or Nil
    response,       \* the *AnalysisResponse Analyzer.Analyze returned, or Nil
    retErr,         \* the error Analyzer.Analyze returned, or Nil
    sanitizeCalls,  \* observation: calls of SanitizeWithStats
    ruleEvals,      \* observation: calls of Engine.Analyze
    aiCalls,        \* observation: calls of aiClient.Analyze
    attempts,       \* observation: calls of executeRequest
    waits,          \* observation: the backoff waits that elapsed, in order
    svcLog,         \* observation: what the service did on each attempt
    lastSvc,        \* observation: the service's reply to the last attempt
    cancelledAt,    \* observation: pc at the moment the context ended, or ""
    attemptsAtCancel, \* observation: attempts at the moment the context ended
    table,          \* what the components were constructed with: "test"
                    \* (NewEngine / NewWithPatterns with the small table and
                    \* pattern list below) or "default" (DefaultRules(),
                    \* sanitizer.New, as cmd/server wires them)
    maxSize,        \* Sanitizer.maxSize
    ruleTable,      \* Engine.rules
    patternList,    \* Sanitizer.patterns
    workers,        \* requests processed concurrently through the one
                    \* Analyzer: each worker's own variables, by worker
    fn,             \* a function called on its own: its name, "" if none
    arg,            \* that call's argument
    fnRet           \* that call's return value, Nil before it returns

vars == <<log, enableRules, threshold, client, maxRetries, ctx, pc,
          sanitizedLog, stats, attempt, backoff, result, lastErr,
          bodyConsumed, clientRet, response, retErr, sanitizeCalls,
          ruleEvals, aiCalls, attempts, waits, svcLog, lastSvc,
          cancelledAt, attemptsAtCancel, table, maxSize, ruleTable,
          patternList, workers, fn, arg, fnRet>>

\* ---------------------------------------------------------------- bounds
MaxLogLen == 2          \* longest request log explored
MaxRetriesBound == 2    \* largest AIConfig.MaxRetries explored
MaxSize == 2            \* Sanitizer.maxSize of the Analyzer's sanitizer
MaxListLen == 2         \* longest suggested_actions / prevention_tips list
MaxMatches == 3         \* longest match list handed to GetBestMatch
MaxMatchLen == 12       \* longest matched string handed to maskValue
MaxMembers == 2         \* most members of a JSON object in a reply text
MaxPieces == 2          \* most pieces of a log handed to the default sanitizer

\* nil pointer / nil error
Nil == [nil |-> TRUE]

Alphabet == {" ", "K", "o", "s"}

Logs == UNION {[1..n -> Alphabet] : n \in 0..MaxLogLen}

\* ------------------------------------------------------- strings helpers
Min(S) == CHOOSE x \in S : \A y \in S : x <= y
Max(S) == CHOOSE x \in S : \A y \in S : x >= y

\* the upper-case letters and their lower-case forms
LowerOf ==
    [c \in {"A", "B", "C", "D", "E", "F", "G", "H", "I", "J", "K", "L", "M",
            "N", "O", "P", "Q", "R", "S", "T", "U", "V", "W", "X", "Y", "Z"} |->
        CASE c = "A" -> "a"
          [] c = "B" -> "b"
          [] c = "C" -> "c"
          [] c = "D" -> "d"
          [] c = "E" -> "e"
          [] c = "F" -> "f"
          [] c = "G" -> "g"
          [] c = "H" -> "h"
          [] c = "I" -> "i"
          [] c = "J" -> "j"
          [] c = "K" -> "k"
          [] c = "L" -> "l"
          [] c = "M" -> "m"
          [] c = "N" -> "n"
          [] c = "O" -> "o"
          [] c = "P" -> "p"
          [] c = "Q" -> "q"
          [] c = "R" -> "r"
          [] c = "S" -> "s"
          [] c = "T" -> "t"
          [] c = "U" -> "u"
          [] c = "V" -> "v"
          [] c = "W" -> "w"
          [] c = "X" -> "x"
          [] c = "Y" -> "y"
          [] OTHER -> "z"]

\* strings.ToLower on one character
ToLowerChar(c) == IF c \in DOMAIN LowerOf THEN LowerOf[c] ELSE c

ToLower(s) == [i \in 1..Len(s) |-> ToLowerChar(s[i])]

\* strings.Contains
Contains(s, sub) ==
    \E i \in 0..(Len(s) - Len(sub)) :
        \A j \in 1..Len(sub) : s[i + j] = sub[j]

\* the white space strings.TrimSpace removes, of the characters text is
\* made of here (unicode.IsSpace also holds for \v, U+0085 and U+00A0)
WhiteSpace == {" ", "\t", "\n", "\r", "\f"}

\* strings.TrimSpace
TrimSpace(s) ==
    LET keep == {i \in 1..Len(s) : s[i] \notin WhiteSpace}
    IN  IF keep = {} THEN <<>> ELSE SubSeq(s, Min(keep), Max(keep))

\* ---------------------------------------------------- regular expressions
\* A compiled regexp is a sequence of nodes; a node is a literal string, a
\* character class, a group of alternatives (each a sequence of nodes) or
\* the word-boundary assertion, with a repetition count min..max (max = -1:
\* unbounded).  A literal of a (?i) expression is kept in lower case and
\* compared to the lower-cased text; a class of a (?i) expression holds
\* both cases.
Lower == {"a", "b", "c", "d", "e", "f", "g", "h", "i", "j", "k", "l", "m",
          "n", "o", "p", "q", "r", "s", "t", "u", "v", "w", "x", "y", "z"}

Upper == {"A", "B", "C", "D", "E", "F", "G", "H", "I", "J", "K", "L", "M",
          "N", "O", "P", "Q", "R", "S", "T", "U", "V", "W", "X", "Y", "Z"}

Digit == {"0", "1", "2", "3", "4", "5", "6", "7", "8", "9"}

\* \s
Space == {" ", "\t", "\n", "\r", "\f"}

Node(k, s, ci, in, neg, alts, min, max) ==
    [k |-> k, s |-> s, ci |-> ci, in |-> in, neg |-> neg, alts |-> alts,
     min |-> min, max |-> max]

Lit(s) == Node("lit", s, TRUE, {}, FALSE, <<>>, 1, 1)

LitCS(s) == Node("lit", s, FALSE, {}, FALSE, <<>>, 1, 1)

Chr(in, neg, min, max) == Node("chr", <<>>, FALSE, in, neg, <<>>, min, max)

Grp(alts, min, max) == Node("grp", <<>>, FALSE, {}, FALSE, alts, min, max)

WordB == Node("wb", <<>>, FALSE, {}, FALSE, <<>>, 1, 1)

\* \w at the character after position q of s (positions count the
\* characters consumed, 0..Len(s))
IsWordAt(s, q) ==
    q >= 1 /\ q <= Len(s) /\ s[q] \in Lower \cup Upper \cup Digit \cup {"_"}

RECURSIVE ReFrom(_, _, _, _)
RECURSIVE Rep(_, _, _, _, _)

\* the positions reached from a position of S by one occurrence of node n
Once(n, s, S) ==
    CASE n.k = "lit" ->
           {q + Len(n.s) : q \in
               {p \in S : /\ p + Len(n.s) <= Len(s)
                          /\ \A j \in 1..Len(n.s) :
                                (IF n.ci THEN ToLowerChar(s[p + j])
                                         ELSE s[p + j]) = n.s[j]}}
      [] n.k = "chr" ->
           {q + 1 : q \in
               {p \in S : p < Len(s) /\ ((s[p + 1] \in n.in) # n.neg)}}
      [] n.k = "grp" ->
           UNION {ReFrom(n.alts[a], 1, s, S) : a \in 1..Len(n.alts)}
      [] OTHER ->
           {p \in S : IsWordAt(s, p) # IsWordAt(s, p + 1)}

\* the positions reached from S by min..max occurrences of n; S holds the
\* positions reached by k occurrences, acc those already counted
Rep(n, s, S, k, acc) ==
    LET front == IF k >= n.min THEN S \ acc ELSE S
        acc2 == IF k >= n.min THEN acc \cup front ELSE acc
    IN  IF front = {} THEN acc
        ELSE IF n.max # -1 /\ k >= n.max THEN acc2
        ELSE Rep(n, s, Once(n, s, front), k + 1, acc2)

\* the length of the longest run of characters of class n after position p
RunLen(n, s, p) ==
    LET stop == {j \in (p + 1)..Len(s) : (s[j] \in n.in) = n.neg}
    IN  (IF stop = {} THEN Len(s) + 1 ELSE Min(stop)) - p - 1

\* Rep for a character class: min..max characters of the class
RepChr(n, s, S) ==
    UNION { LET r == RunLen(n, s, p)
                hi == IF n.max = -1 \/ r < n.max THEN r ELSE n.max
            IN  (p + n.min)..(p + hi) : p \in S }

\* the positions reached from S by the nodes i.. of re
ReFrom(re, i, s, S) ==
    IF i > Len(re) \/ S = {} THEN S
    ELSE ReFrom(re, i + 1, s,
                IF re[i].k = "chr" THEN RepChr(re[i], s, S)
                ELSE Rep(re[i], s, S, 0, {}))

\* the end positions of the matches of re that start at position p
MatchEnds(re, s, p) == ReFrom(re, 1, s, {p})

\* regexp.MatchString for a compiled regexp: some match starts somewhere
ReMatchString(re, s) == ReFrom(re, 1, s, 0..Len(s)) # {}

\* ------------------------------------------------------------- sanitizer
Redacted == <<"[", "R", "E", "D", "A", "C", "T", "E", "D", "]">>

\* strings.IndexAny(match, ":="), 0 when absent (1-based otherwise)
IndexSep(match) ==
    LET hits == {i \in 1..Len(match) : match[i] \in {":", "="}}
    IN  IF hits = {} THEN 0 ELSE Min(hits)

\* maskValue leaving the match as it is
maskValue_Identity(match) == match

\* maskValue without the rule for matches of at most 8 characters
maskValue_NoShortRule(match) ==
    IF IndexSep(match) # 0
    THEN SubSeq(match, 1, IndexSep(match)) \o Redacted
    ELSE IF Len(match) > 10
         THEN SubSeq(match, 1, 4) \o <<"*", "*", "*", "*">>
              \o SubSeq(match, Len(match) - 3, Len(match))
    ELSE Redacted

maskValue(match) ==
    IF Len(match) <= 8 THEN Redacted
    ELSE IF IndexSep(match) # 0
         THEN SubSeq(match, 1, IndexSep(match)) \o Redacted
    ELSE IF Len(match) > 10
         THEN SubSeq(match, 1, 4) \o <<"*", "*", "*", "*">>
              \o SubSeq(match, Len(match) - 3, Len(match))
    ELSE Redacted

\* The pattern list NewWithPatterns is given for the "test" construction:
\* the single pattern s+.  A pattern [cls |-> C] is the regular expression
\* [C]+ over a character class.
testPatterns == << [cls |-> {"s"}] >>

\* sanitizer.defaultPatterns
defaultPatterns ==
    <<
      \* (?i)(api[_-]?key|apikey)\s*[:=]\s*['"]?([a-zA-Z0-9_\-]{20,})['"]?
      [re |-> <<Grp(<<<<Lit(<<"a", "p", "i">>), Grp(<<<<Chr({"-", "_"},
             FALSE, 0, 1), Lit(<<"k", "e", "y">>)>>, <<Lit(<<"k", "e",
             "y">>)>>>>, 1, 1)>>>>, 1, 1), Chr(Space, FALSE, 0, -1),
             Chr({":", "="}, FALSE, 1, 1), Chr(Space, FALSE, 0, -1),
             Chr({"\"", "'"}, FALSE, 0, 1),
             Grp(<<<<Chr(Lower \cup Upper \cup Digit \cup {"-", "_"}, FALSE,
             20, -1)>>>>, 1, 1), Chr({"\"", "'"}, FALSE, 0, 1)>>],
      \* (?i)(secret[_-]?key|secretkey)\s*[:=]\s*['"]?([a-zA-Z0-9_\-]{20,})['"]?
      [re |-> <<Grp(<<<<Lit(<<"s", "e", "c", "r", "e", "t">>),
             Grp(<<<<Chr({"-", "_"}, FALSE, 0, 1), Lit(<<"k", "e", "y">>)>>,
             <<Lit(<<"k", "e", "y">>)>>>>, 1, 1)>>>>, 1, 1), Chr(Space,
             FALSE, 0, -1), Chr({":", "="}, FALSE, 1, 1), Chr(Space, FALSE,
             0, -1), Chr({"\"", "'"}, FALSE, 0, 1),
             Grp(<<<<Chr(Lower \cup Upper \cup Digit \cup {"-", "_"}, FALSE,
             20, -1)>>>>, 1, 1), Chr({"\"", "'"}, FALSE, 0, 1)>>],
      \* (?i)(access[_-]?key|accesskey)\s*[:=]\s*['"]?([a-zA-Z0-9_\-]{16,})['"]?
      [re |-> <<Grp(<<<<Lit(<<"a", "c", "c", "e", "s", "s">>),
             Grp(<<<<Chr({"-", "_"}, FALSE, 0, 1), Lit(<<"k", "e", "y">>)>>,
             <<Lit(<<"k", "e", "y">>)>>>>, 1, 1)>>>>, 1, 1), Chr(Space,
             FALSE, 0, -1), Chr({":", "="}, FALSE, 1, 1), Chr(Space, FALSE,
             0, -1), Chr({"\"", "'"}, FALSE, 0, 1),
             Grp(<<<<Chr(Lower \cup Upper \cup Digit \cup {"-", "_"}, FALSE,
             16, -1)>>>>, 1, 1), Chr({"\"", "'"}, FALSE, 0, 1)>>],
      \* (?i)(bearer\s+)[a-zA-Z0-9_\-\.]+
      [re |-> <<Grp(<<<<Lit(<<"b", "e", "a", "r", "e", "r">>), Chr(Space,
             FALSE, 1, -1)>>>>, 1, 1),
             Chr(Lower \cup Upper \cup Digit \cup {"-", ".", "_"}, FALSE, 1,
             -1)>>],
      \* (?i)(authorization:\s* )[a-zA-Z0-9_\-\.\s]+
      [re |-> <<Grp(<<<<Lit(<<"a", "u", "t", "h", "o", "r", "i", "z", "a",
             "t", "i", "o", "n", ":">>), Chr(Space, FALSE, 0, -1)>>>>, 1,
             1), Chr(Lower \cup Upper \cup Digit \cup Space \cup {"-", ".",
             "_"}, FALSE, 1, -1)>>],
      \* (?i)(token|auth[_-]?token)\s*[:=]\s*['"]?([a-zA-Z0-9_\-\.]{20,})['"]?
      [re |-> <<Grp(<<<<Lit(<<"t", "o", "k", "e", "n">>)>>, <<Lit(<<"a", "u",
             "t", "h">>), Chr({"-", "_"}, FALSE, 0, 1), Lit(<<"t", "o", "k",
             "e", "n">>)>>>>, 1, 1), Chr(Space, FALSE, 0, -1), Chr({":",
             "="}, FALSE, 1, 1), Chr(Space, FALSE, 0, -1), Chr({"\"", "'"},
             FALSE, 0, 1),
             Grp(<<<<Chr(Lower \cup Upper \cup Digit \cup {"-", ".", "_"},
             FALSE, 20, -1)>>>>, 1, 1), Chr({"\"", "'"}, FALSE, 0, 1)>>],
      \* (?i)(password|passwd|pwd)\s*[:=]\s*['"]?([^\s'"]{4,})['"]?
      [re |-> <<Grp(<<<<Lit(<<"p">>), Grp(<<<<Lit(<<"a", "s", "s", "w", "o",
             "r", "d">>)>>, <<Lit(<<"a", "s", "s", "w", "d">>)>>,
             <<Lit(<<"w", "d">>)>>>>, 1, 1)>>>>, 1, 1), Chr(Space, FALSE, 0,
             -1), Chr({":", "="}, FALSE, 1, 1), Chr(Space, FALSE, 0, -1),
             Chr({"\"", "'"}, FALSE, 0, 1), Grp(<<<<Chr(Space \cup {"\"",
             "'"}, TRUE, 4, -1)>>>>, 1, 1), Chr({"\"", "'"}, FALSE, 0, 1)>>],
      \* (?i)AKIA[0-9A-Z]{16}
      [re |-> <<Lit(<<"a", "k", "i", "a">>), Chr(Lower \cup Upper \cup Digit,
             FALSE, 16, 16)>>],
      \* (?i)(aws[_-]?secret[_-]?access[_-]?key)\s*[:=]\s*['"]?([a-zA-Z0-9/+=]{40})['"]?
      [re |-> <<Grp(<<<<Lit(<<"a", "w", "s">>), Chr({"-", "_"}, FALSE, 0, 1),
             Lit(<<"s", "e", "c", "r", "e", "t">>), Chr({"-", "_"}, FALSE,
             0, 1), Lit(<<"a", "c", "c", "e", "s", "s">>), Chr({"-", "_"},
             FALSE, 0, 1), Lit(<<"k", "e", "y">>)>>>>, 1, 1), Chr(Space,
             FALSE, 0, -1), Chr({":", "="}, FALSE, 1, 1), Chr(Space, FALSE,
             0, -1), Chr({"\"", "'"}, FALSE, 0, 1),
             Grp(<<<<Chr(Lower \cup Upper \cup Digit \cup {"+", "/", "="},
             FALSE, 40, 40)>>>>, 1, 1), Chr({"\"", "'"}, FALSE, 0, 1)>>],
      \* -----BEGIN\s+(RSA|DSA|EC|OPENSSH)?\s*PRIVATE KEY-----
      [re |-> <<LitCS(<<"-", "-", "-", "-", "-", "B", "E", "G", "I", "N">>),
             Chr(Space, FALSE, 1, -1), Grp(<<<<LitCS(<<"R", "S", "A">>)>>,
             <<LitCS(<<"D", "S", "A">>)>>, <<LitCS(<<"E", "C">>)>>,
             <<LitCS(<<"O", "P", "E", "N", "S", "S", "H">>)>>>>, 0, 1),
             Chr(Space, FALSE, 0, -1), LitCS(<<"P", "R", "I", "V", "A", "T",
             "E", " ", "K", "E", "Y", "-", "-", "-", "-", "-">>)>>],
      \* -----BEGIN\s+PGP\s+PRIVATE\s+KEY\s+BLOCK-----
      [re |-> <<LitCS(<<"-", "-", "-", "-", "-", "B", "E", "G", "I", "N">>),
             Chr(Space, FALSE, 1, -1), LitCS(<<"P", "G", "P">>), Chr(Space,
             FALSE, 1, -1), LitCS(<<"P", "R", "I", "V", "A", "T", "E">>),
             Chr(Space, FALSE, 1, -1), LitCS(<<"K", "E", "Y">>), Chr(Space,
             FALSE, 1, -1), LitCS(<<"B", "L", "O", "C", "K", "-", "-", "-",
             "-", "-">>)>>],
      \* (?i)(mongodb|mysql|postgres|postgresql|redis):\/\/[^@]+@[^\s]+
      [re |-> <<Grp(<<<<Lit(<<"m", "o", "n", "g", "o", "d", "b">>)>>,
             <<Lit(<<"m", "y", "s", "q", "l">>)>>, <<Lit(<<"p", "o", "s",
             "t", "g", "r", "e", "s">>)>>, <<Lit(<<"p", "o", "s", "t", "g",
             "r", "e", "s", "q", "l">>)>>, <<Lit(<<"r", "e", "d", "i",
             "s">>)>>>>, 1, 1), Lit(<<":", "/", "/">>), Chr({"@"}, TRUE, 1,
             -1), Lit(<<"@">>), Chr(Space, TRUE, 1, -1)>>],
      \* (?i)(connection[_-]?string)\s*[:=]\s*['"]?([^\s'"]+)['"]?
      [re |-> <<Grp(<<<<Lit(<<"c", "o", "n", "n", "e", "c", "t", "i", "o",
             "n">>), Chr({"-", "_"}, FALSE, 0, 1), Lit(<<"s", "t", "r", "i",
             "n", "g">>)>>>>, 1, 1), Chr(Space, FALSE, 0, -1), Chr({":",
             "="}, FALSE, 1, 1), Chr(Space, FALSE, 0, -1), Chr({"\"", "'"},
             FALSE, 0, 1), Grp(<<<<Chr(Space \cup {"\"", "'"}, TRUE, 1,
             -1)>>>>, 1, 1), Chr({"\"", "'"}, FALSE, 0, 1)>>],
      \* ghp_[a-zA-Z0-9]{36}
      [re |-> <<LitCS(<<"g", "h", "p", "_">>),
             Chr(Lower \cup Upper \cup Digit, FALSE, 36, 36)>>],
      \* gho_[a-zA-Z0-9]{36}
      [re |-> <<LitCS(<<"g", "h", "o", "_">>),
             Chr(Lower \cup Upper \cup Digit, FALSE, 36, 36)>>],
      \* ghu_[a-zA-Z0-9]{36}
      [re |-> <<LitCS(<<"g", "h", "u", "_">>),
             Chr(Lower \cup Upper \cup Digit, FALSE, 36, 36)>>],
      \* ghs_[a-zA-Z0-9]{36}
      [re |-> <<LitCS(<<"g", "h", "s", "_">>),
             Chr(Lower \cup Upper \cup Digit, FALSE, 36, 36)>>],
      \* ghr_[a-zA-Z0-9]{36}
      [re |-> <<LitCS(<<"g", "h", "r", "_">>),
             Chr(Lower \cup Upper \cup Digit, FALSE, 36, 36)>>],
      \* eyJ[a-zA-Z0-9_-]*\.eyJ[a-zA-Z0-9_-]*\.[a-zA-Z0-9_-]*
      [re |-> <<LitCS(<<"e", "y", "J">>),
             Chr(Lower \cup Upper \cup Digit \cup {"-", "_"}, FALSE, 0, -1),
             LitCS(<<".", "e", "y", "J">>),
             Chr(Lower \cup Upper \cup Digit \cup {"-", "_"}, FALSE, 0, -1),
             LitCS(<<".">>), Chr(Lower \cup Upper \cup Digit \cup {"-",
             "_"}, FALSE, 0, -1)>>],
      \* xox[baprs]-[0-9a-zA-Z-]+
      [re |-> <<LitCS(<<"x", "o", "x">>), Chr({"a", "b", "p", "r", "s"},
             FALSE, 1, 1), LitCS(<<"-">>),
             Chr(Lower \cup Upper \cup Digit \cup {"-"}, FALSE, 1, -1)>>],
      \* (?i)(secret|private|credential)\s*[:=]\s*['"]?([a-zA-Z0-9_\-]{16,})['"]?
      [re |-> <<Grp(<<<<Lit(<<"s", "e", "c", "r", "e", "t">>)>>, <<Lit(<<"p",
             "r", "i", "v", "a", "t", "e">>)>>, <<Lit(<<"c", "r", "e", "d",
             "e", "n", "t", "i", "a", "l">>)>>>>, 1, 1), Chr(Space, FALSE,
             0, -1), Chr({":", "="}, FALSE, 1, 1), Chr(Space, FALSE, 0, -1),
             Chr({"\"", "'"}, FALSE, 0, 1),
             Grp(<<<<Chr(Lower \cup Upper \cup Digit \cup {"-", "_"}, FALSE,
             16, -1)>>>>, 1, 1), Chr({"\"", "'"}, FALSE, 0, 1)>>],
      \* \b(?:\d{1,3}\.){3}\d{1,3}:\d{4,5}\b
      [re |-> <<WordB, Grp(<<<<Chr(Digit, FALSE, 1, 3), LitCS(<<".">>)>>>>,
             3, 3), Chr(Digit, FALSE, 1, 3), LitCS(<<":">>), Chr(Digit,
             FALSE, 4, 5), WordB>>],
      \* [a-zA-Z0-9._%+-]+@[a-zA-Z0-9.-]+\.[a-zA-Z]{2,}
      [re |-> <<Chr(Lower \cup Upper \cup Digit \cup {"%", "+", "-", ".",
             "_"}, FALSE, 1, -1), LitCS(<<"@">>),
             Chr(Lower \cup Upper \cup Digit \cup {"-", "."}, FALSE, 1, -1),
             LitCS(<<".">>), Chr(Lower \cup Upper, FALSE, 2, -1)>>]
    >>

\* the pattern list sanitizer.New (t = "default") or NewWithPatterns
\* stores in the Sanitizer
NewPatterns(t) == IF t = "default" THEN defaultPatterns ELSE testPatterns

\* Sanitizer.patterns
patterns == patternList

RECURSIVE ReReplaceFrom(_, _, _)
\* regexp.ReplaceAllStringFunc(s, maskValue) for a compiled regexp, from
\* position i on.  The match taken is the leftmost one and, of those, the
\* longest: every quantifier of the default patterns is greedy and their
\* alternatives are distinct literals, for which Go's leftmost-first match
\* is the leftmost-longest one.  None of them matches the empty string.
ReReplaceFrom(s, i, re) ==
    LET starts == {q \in i..Len(s) : MatchEnds(re, s, q) \ {q} # {}}
    IN  IF ReFrom(re, 1, s, i..Len(s)) = {} \/ starts = {}
        THEN SubSeq(s, i + 1, Len(s))
        ELSE LET j == Min(starts)
                 e == Max(MatchEnds(re, s, j))
             IN  SubSeq(s, i + 1, j) \o maskValue(SubSeq(s, j + 1, e))
                 \o ReReplaceFrom(s, e, re)

RECURSIVE ReCountFrom(_, _, _)
\* len(pattern.FindAllString(s, -1)) for a compiled regexp
ReCountFrom(s, i, re) ==
    LET starts == {q \in i..Len(s) : MatchEnds(re, s, q) \ {q} # {}}
    IN  IF ReFrom(re, 1, s, i..Len(s)) = {} \/ starts = {}
        THEN 0
        ELSE 1 + ReCountFrom(s, Max(MatchEnds(re, s, Min(starts))), re)

\* end of the leftmost-longest match of pattern p starting at position i
RunEnd(s, i, p) ==
    LET stop == {j \in i..Len(s) : s[j] \notin p.cls}
    IN  IF stop = {} THEN Len(s) ELSE Min(stop) - 1

RECURSIVE ReplaceAllFrom(_, _, _)
\* regexp.ReplaceAllStringFunc(s, maskValue) from position i on
ReplaceAllFrom(s, i, p) ==
    IF i > Len(s) THEN <<>>
    ELSE IF s[i] \in p.cls
         THEN maskValue(SubSeq(s, i, RunEnd(s, i, p)))
              \o ReplaceAllFrom(s, RunEnd(s, i, p) + 1, p)
         ELSE <<s[i]>> \o ReplaceAllFrom(s, i + 1, p)

RECURSIVE CountFrom(_, _, _)
\* len(pattern.FindAllString(s, -1)) from position i on
CountFrom(s, i, p) ==
    IF i > Len(s) THEN 0
    ELSE IF s[i] \in p.cls
         THEN 1 + CountFrom(s, RunEnd(s, i, p) + 1, p)
         ELSE CountFrom(s, i + 1, p)

RECURSIVE maskFrom(_, _)
\* maskSecrets: the patterns applied in list order, each to the output of
\* the one before
maskFrom(s, k) ==
    IF Len(s) = 0 \/ k > Len(patterns) THEN s
    ELSE maskFrom(IF "re" \in DOMAIN patterns[k]
                  THEN ReReplaceFrom(s, 0, patterns[k].re)
                  ELSE ReplaceAllFrom(s, 1, patterns[k]),
                  k + 1)

maskSecrets(s) == maskFrom(s, 1)

\* a size limit that cuts nothing
Truncate_None(s) == s

Truncate(s) == IF Len(s) > maxSize THEN SubSeq(s, 1, maxSize) ELSE s

Sanitize(l) == maskSecrets(Truncate(TrimSpace(l)))

\* IsEmpty without the TrimSpace
IsEmpty_NoTrim(l) == l = <<>>

IsEmpty(l) == TrimSpace(l) = <<>>

\* a ceiling that a log of exactly its length exceeds
IsTooLarge_AtLeast(l) == Len(l) >= maxSize

IsTooLarge(l) == Len(l) > maxSize

RECURSIVE SecretsFrom(_, _)
SecretsFrom(l, k) ==
    IF k > Len(patterns) THEN 0
    ELSE (IF "re" \in DOMAIN patterns[k]
          THEN ReCountFrom(l, 0, patterns[k].re)
          ELSE CountFrom(l, 1, patterns[k]))
         + SecretsFrom(l, k + 1)

SanitizeWithStats(l) ==
    [text  |-> Sanitize(l),
     stats |-> [OriginalSize  |-> Len(l),
                SanitizedSize |-> Len(Sanitize(l)),
                Truncated     |-> Len(l) > maxSize,
                SecretsFound  |-> SecretsFrom(l, 1)]]

NoStats == [OriginalSize |-> 0, SanitizedSize |-> 0, Truncated |-> FALSE,
            SecretsFound |-> 0]

\* ---------------------------------------------------------------- domain
Severities == {"Low", "Medium", "High"}

\* Severity.IsValid
IsValid(sev) == sev \in Severities

AnalysisResult(et, sev, rc, acts, tips) ==
    [ErrorType |-> et, Severity |-> sev, RootCause |-> rc,
     SuggestedActions |-> acts, PreventionTips |-> tips]

\* domain.WrapError
WrapError(op, err, retryable) == [Op |-> op, Err |-> err, Retryable |-> retryable]

\* domain.IsRetryable
IsRetryable(err) == IF err = Nil THEN FALSE ELSE err.Retryable

\* Error() that drops the wrapped error
ErrorString_OpOnly(e) == e.Op

\* AnalysisError.Error
ErrorString(e) == IF e.Op # "" THEN e.Op \o ": " \o e.Err ELSE e.Err

ErrEmptyLog == "log content is empty"
ErrLogTooLarge == "log content exceeds maximum size"
ErrAITimeout == "AI service timeout"
ErrAIUnavailable == "AI service unavailable"
ErrInvalidAIResponse == "invalid AI response format"
ErrRateLimited == "rate limit exceeded"

\* ctx.Err()
CtxErr(c) ==
    CASE c = "canceled" -> "context canceled"
      [] c = "deadline" -> "context deadline exceeded"
      [] OTHER -> ""

\* ------------------------------------------------------------ rule table
\* The table NewEngine is given for the "test" construction.  Its rules'
\* regular expressions are patterns [cls]+ as in the sanitizer.
testRules ==
    << [ID |-> "r_low", Keywords |-> {},
        Patterns |-> {[cls |-> {"o"}]}, Confidence |-> 50,
        Result |-> AnalysisResult("low_conf", "Low", "cause o",
                                  <<"act o">>, <<>>)],
       [ID |-> "r_kw", Keywords |-> {<<"k">>},
        Patterns |-> {}, Confidence |-> 90,
        Result |-> AnalysisResult("kw", "High", "cause k",
                                  <<"act k1", "act k2">>, <<"tip k">>)],
       [ID |-> "r_tie", Keywords |-> {<<"K", "O">>},
        Patterns |-> {}, Confidence |-> 90,
        Result |-> AnalysisResult("tie", "Medium", "cause ko",
                                  <<"act ko">>, <<"tip ko">>)] >>

dockerBuildPermissionDenied ==
    [ID |-> "docker_build_permission",
     Keywords |-> {<<"d", "o", "c", "k", "e", "r", " ", "b", "u", "i", "l",
                   "d">>, <<"p", "e", "r", "m", "i", "s", "s", "i", "o",
                   "n", " ", "d", "e", "n", "i", "e", "d">>},
     Patterns |-> {
        \* (?i)docker.*build.*permission\s+denied
        [re |-> <<Lit(<<"d", "o", "c", "k", "e", "r">>), Chr({"\n"}, TRUE, 0,
               -1), Lit(<<"b", "u", "i", "l", "d">>), Chr({"\n"}, TRUE, 0,
               -1), Lit(<<"p", "e", "r", "m", "i", "s", "s", "i", "o",
               "n">>), Chr(Space, FALSE, 1, -1), Lit(<<"d", "e", "n", "i",
               "e", "d">>)>>],
        \* (?i)error.*docker.*EACCES
        [re |-> <<Lit(<<"e", "r", "r", "o", "r">>), Chr({"\n"}, TRUE, 0, -1),
               Lit(<<"d", "o", "c", "k", "e", "r">>), Chr({"\n"}, TRUE, 0,
               -1), Lit(<<"e", "a", "c", "c", "e", "s">>)>>]},
     Confidence |-> 90,
     Result |-> AnalysisResult(
        "docker_permission_denied", "High",
        "Docker build failed due to insufficient permissions. This typically occurs when the user running Docker doesn't have access to required files or the Docker socket.",
        <<"Ensure the user is in the 'docker' group: sudo usermod -aG docker $USER",
          "Check file permissions in the build context",
          "If using CI/CD, ensure the runner has Docker socket access",
          "Verify Dockerfile COPY/ADD commands reference accessible files">>,
        <<"Run Docker with appropriate user permissions",
          "Use multi-stage builds with proper ownership",
          "Configure CI/CD runners with Docker access">>)]

dockerDaemonNotRunning ==
    [ID |-> "docker_daemon_not_running",
     Keywords |-> {<<"c", "a", "n", "n", "o", "t", " ", "c", "o", "n", "n",
                   "e", "c", "t", " ", "t", "o", " ", "t", "h", "e", " ",
                   "d", "o", "c", "k", "e", "r", " ", "d", "a", "e", "m",
                   "o", "n">>, <<"d", "o", "c", "k", "e", "r", " ", "d",
                   "a", "e", "m", "o", "n", " ", "i", "s", " ", "n", "o",
                   "t", " ", "r", "u", "n", "n", "i", "n", "g">>},
     Patterns |-> {
        \* (?i)cannot connect to the docker daemon
        [re |-> <<Lit(<<"c", "a", "n", "n", "o", "t", " ", "c", "o", "n",
               "n", "e", "c", "t", " ", "t", "o", " ", "t", "h", "e", " ",
               "d", "o", "c", "k", "e", "r", " ", "d", "a", "e", "m", "o",
               "n">>)>>],
        \* (?i)is the docker daemon running
        [re |-> <<Lit(<<"i", "s", " ", "t", "h", "e", " ", "d", "o", "c",
               "k", "e", "r", " ", "d", "a", "e", "m", "o", "n", " ", "r",
               "u", "n", "n", "i", "n", "g">>)>>],
        \* (?i)docker\.sock.*no such file
        [re |-> <<Lit(<<"d", "o", "c", "k", "e", "r", ".", "s", "o", "c",
               "k">>), Chr({"\n"}, TRUE, 0, -1), Lit(<<"n", "o", " ", "s",
               "u", "c", "h", " ", "f", "i", "l", "e">>)>>]},
     Confidence |-> 95,
     Result |-> AnalysisResult(
        "docker_daemon_unavailable", "High",
        "The Docker daemon is not running or not accessible. Docker commands require a running daemon to execute.",
        <<"Start the Docker daemon: sudo systemctl start docker",
          "Check Docker service status: sudo systemctl status docker",
          "Verify Docker installation: docker --version",
          "If using Docker Desktop, ensure the application is running">>,
        <<"Enable Docker to start on boot: sudo systemctl enable docker",
          "Monitor Docker daemon health in production",
          "Use Docker healthchecks in CI/CD pipelines">>)]

npmInstallFailure ==
    [ID |-> "npm_install_failure",
     Keywords |-> {<<"n", "p", "m", " ", "e", "r", "r", "!">>},
     Patterns |-> {
        \* (?i)npm ERR!.*code\s+E[A-Z]+
        [re |-> <<Lit(<<"n", "p", "m", " ", "e", "r", "r", "!">>),
               Chr({"\n"}, TRUE, 0, -1), Lit(<<"c", "o", "d", "e">>),
               Chr(Space, FALSE, 1, -1), Lit(<<"e">>), Chr(Lower \cup Upper,
               FALSE, 1, -1)>>],
        \* (?i)npm ERR!.*404.*not found
        [re |-> <<Lit(<<"n", "p", "m", " ", "e", "r", "r", "!">>),
               Chr({"\n"}, TRUE, 0, -1), Lit(<<"4", "0", "4">>), Chr({"\n"},
               TRUE, 0, -1), Lit(<<"n", "o", "t", " ", "f", "o", "u", "n",
               "d">>)>>],
        \* (?i)npm ERR!.*peer dep
        [re |-> <<Lit(<<"n", "p", "m", " ", "e", "r", "r", "!">>),
               Chr({"\n"}, TRUE, 0, -1), Lit(<<"p", "e", "e", "r", " ", "d",
               "e", "p">>)>>]},
     Confidence |-> 85,
     Result |-> AnalysisResult(
        "npm_install_failure", "Medium",
        "NPM package installation failed. This could be due to missing packages, version conflicts, network issues, or corrupted cache.",
        <<"Clear npm cache: npm cache clean --force",
          "Delete node_modules and package-lock.json, then reinstall",
          "Check if the package exists and version is correct",
          "Verify network connectivity to npm registry",
          "Check for peer dependency conflicts">>,
        <<"Lock dependency versions in package-lock.json",
          "Use npm ci in CI/CD for reproducible builds",
          "Regularly update dependencies to avoid conflicts">>)]

outOfMemory ==
    [ID |-> "out_of_memory",
     Keywords |-> {<<"o", "u", "t", " ", "o", "f", " ", "m", "e", "m", "o",
                   "r", "y">>, <<"o", "o", "m", "k", "i", "l", "l", "e",
                   "d">>, <<"m", "e", "m", "o", "r", "y", " ", "a", "l",
                   "l", "o", "c", "a", "t", "i", "o", "n", " ", "f", "a",
                   "i", "l", "e", "d">>, <<"h", "e", "a", "p", " ", "o",
                   "u", "t", " ", "o", "f", " ", "m", "e", "m", "o", "r",
                   "y">>},
     Patterns |-> {
        \* (?i)out\s+of\s+memory
        [re |-> <<Lit(<<"o", "u", "t">>), Chr(Space, FALSE, 1, -1),
               Lit(<<"o", "f">>), Chr(Space, FALSE, 1, -1), Lit(<<"m", "e",
               "m", "o", "r", "y">>)>>],
        \* (?i)OOMKilled
        [re |-> <<Lit(<<"o", "o", "m", "k", "i", "l", "l", "e", "d">>)>>],
        \* (?i)Cannot allocate memory
        [re |-> <<Lit(<<"c", "a", "n", "n", "o", "t", " ", "a", "l", "l",
               "o", "c", "a", "t", "e", " ", "m", "e", "m", "o", "r",
               "y">>)>>],
        \* (?i)JavaScript heap out of memory
        [re |-> <<Lit(<<"j", "a", "v", "a", "s", "c", "r", "i", "p", "t",
               " ", "h", "e", "a", "p", " ", "o", "u", "t", " ", "o", "f",
               " ", "m", "e", "m", "o", "r", "y">>)>>],
        \* (?i)java\.lang\.OutOfMemoryError
        [re |-> <<Lit(<<"j", "a", "v", "a", ".", "l", "a", "n", "g", ".",
               "o", "u", "t", "o", "f", "m", "e", "m", "o", "r", "y", "e",
               "r", "r", "o", "r">>)>>]},
     Confidence |-> 95,
     Result |-> AnalysisResult(
        "out_of_memory", "High",
        "The process exhausted available memory and was terminated. This can be caused by memory leaks, insufficient resource limits, or processing large datasets.",
        <<"Increase memory limits for the container/process",
          "Profile the application for memory leaks",
          "Implement pagination for large data processing",
          "Check for unbounded caches or collections",
          "Review Kubernetes resource limits">>,
        <<"Set appropriate memory limits based on profiling",
          "Implement memory monitoring and alerting",
          "Use streaming for large file processing",
          "Regular load testing with realistic data volumes">>)]

connectionTimeout ==
    [ID |-> "connection_timeout",
     Keywords |-> {<<"c", "o", "n", "n", "e", "c", "t", "i", "o", "n", " ",
                   "t", "i", "m", "e", "d", " ", "o", "u", "t">>, <<"e",
                   "t", "i", "m", "e", "d", "o", "u", "t">>, <<"c", "o",
                   "n", "n", "e", "c", "t", "i", "o", "n", " ", "r", "e",
                   "f", "u", "s", "e", "d">>, <<"d", "i", "a", "l", " ",
                   "t", "c", "p">>},
     Patterns |-> {
        \* (?i)connection\s+timed?\s*out
        [re |-> <<Lit(<<"c", "o", "n", "n", "e", "c", "t", "i", "o", "n">>),
               Chr(Space, FALSE, 1, -1), Lit(<<"t", "i", "m", "e">>),
               Chr({"D", "d"}, FALSE, 0, 1), Chr(Space, FALSE, 0, -1),
               Lit(<<"o", "u", "t">>)>>],
        \* (?i)ETIMEDOUT
        [re |-> <<Lit(<<"e", "t", "i", "m", "e", "d", "o", "u", "t">>)>>],
        \* (?i)ECONNREFUSED
        [re |-> <<Lit(<<"e", "c", "o", "n", "n", "r", "e", "f", "u", "s",
               "e", "d">>)>>],
        \* (?i)dial tcp.*timeout
        [re |-> <<Lit(<<"d", "i", "a", "l", " ", "t", "c", "p">>),
               Chr({"\n"}, TRUE, 0, -1), Lit(<<"t", "i", "m", "e", "o", "u",
               "t">>)>>],
        \* (?i)i/o timeout
        [re |-> <<Lit(<<"i", "/", "o", " ", "t", "i", "m", "e", "o", "u",
               "t">>)>>],
        \* (?i)connect:.*timeout
        [re |-> <<Lit(<<"c", "o", "n", "n", "e", "c", "t", ":">>),
               Chr({"\n"}, TRUE, 0, -1), Lit(<<"t", "i", "m", "e", "o", "u",
               "t">>)>>]},
     Confidence |-> 85,
     Result |-> AnalysisResult(
        "connection_timeout", "Medium",
        "A network connection attempt timed out. This could indicate the target service is down, network issues, firewall blocking, or incorrect host/port configuration.",
        <<"Verify the target service is running and healthy",
          "Check network connectivity: ping, telnet, curl",
          "Review firewall rules and security groups",
          "Verify the host and port configuration",
          "Check DNS resolution">>,
        <<"Implement health checks for dependencies",
          "Use circuit breakers for external services",
          "Configure appropriate timeout values",
          "Add retry logic with exponential backoff">>)]

sslCertificateError ==
    [ID |-> "ssl_certificate_error",
     Keywords |-> {<<"c", "e", "r", "t", "i", "f", "i", "c", "a", "t", "e",
                   " ", "v", "e", "r", "i", "f", "y", " ", "f", "a", "i",
                   "l", "e", "d">>, <<"c", "e", "r", "t", "i", "f", "i",
                   "c", "a", "t", "e", " ", "e", "x", "p", "i", "r", "e",
                   "d">>},
     Patterns |-> {
        \* (?i)certificate\s+verify\s+failed
        [re |-> <<Lit(<<"c", "e", "r", "t", "i", "f", "i", "c", "a", "t",
               "e">>), Chr(Space, FALSE, 1, -1), Lit(<<"v", "e", "r", "i",
               "f", "y">>), Chr(Space, FALSE, 1, -1), Lit(<<"f", "a", "i",
               "l", "e", "d">>)>>],
        \* (?i)SSL.*certificate.*expired
        [re |-> <<Lit(<<"s", "s", "l">>), Chr({"\n"}, TRUE, 0, -1),
               Lit(<<"c", "e", "r", "t", "i", "f", "i", "c", "a", "t",
               "e">>), Chr({"\n"}, TRUE, 0, -1), Lit(<<"e", "x", "p", "i",
               "r", "e", "d">>)>>],
        \* (?i)unable to verify the first certificate
        [re |-> <<Lit(<<"u", "n", "a", "b", "l", "e", " ", "t", "o", " ",
               "v", "e", "r", "i", "f", "y", " ", "t", "h", "e", " ", "f",
               "i", "r", "s", "t", " ", "c", "e", "r", "t", "i", "f", "i",
               "c", "a", "t", "e">>)>>],
        \* (?i)self.signed certificate
        [re |-> <<Lit(<<"s", "e", "l", "f">>), Chr({"\n"}, TRUE, 1, 1),
               Lit(<<"s", "i", "g", "n", "e", "d", " ", "c", "e", "r", "t",
               "i", "f", "i", "c", "a", "t", "e">>)>>],
        \* (?i)x509.*certificate
        [re |-> <<Lit(<<"x", "5", "0", "9">>), Chr({"\n"}, TRUE, 0, -1),
               Lit(<<"c", "e", "r", "t", "i", "f", "i", "c", "a", "t",
               "e">>)>>]},
     Confidence |-> 90,
     Result |-> AnalysisResult(
        "ssl_certificate_error", "High",
        "SSL/TLS certificate validation failed. The certificate may be expired, self-signed, issued by an untrusted CA, or the hostname doesn't match.",
        <<"Check certificate expiration date",
          "Verify the certificate chain is complete",
          "Ensure the CA is trusted in the system's trust store",
          "Verify the hostname matches the certificate CN/SAN",
          "For internal services, add the CA to trusted certificates">>,
        <<"Set up certificate expiration monitoring",
          "Use automated certificate renewal (Let's Encrypt)",
          "Implement certificate rotation procedures",
          "Document internal CA trust requirements">>)]

diskSpaceFull ==
    [ID |-> "disk_space_full",
     Keywords |-> {<<"n", "o", " ", "s", "p", "a", "c", "e", " ", "l", "e",
                   "f", "t", " ", "o", "n", " ", "d", "e", "v", "i", "c",
                   "e">>, <<"d", "i", "s", "k", " ", "f", "u", "l", "l">>,
                   <<"e", "n", "o", "s", "p", "c">>},
     Patterns |-> {
        \* (?i)no space left on device
        [re |-> <<Lit(<<"n", "o", " ", "s", "p", "a", "c", "e", " ", "l",
               "e", "f", "t", " ", "o", "n", " ", "d", "e", "v", "i", "c",
               "e">>)>>],
        \* (?i)ENOSPC
        [re |-> <<Lit(<<"e", "n", "o", "s", "p", "c">>)>>],
        \* (?i)disk\s+quota\s+exceeded
        [re |-> <<Lit(<<"d", "i", "s", "k">>), Chr(Space, FALSE, 1, -1),
               Lit(<<"q", "u", "o", "t", "a">>), Chr(Space, FALSE, 1, -1),
               Lit(<<"e", "x", "c", "e", "e", "d", "e", "d">>)>>]},
     Confidence |-> 95,
     Result |-> AnalysisResult(
        "disk_space_full", "High",
        "The disk has run out of available space. This prevents writing new data and can cause application crashes or data corruption.",
        <<"Identify large files: du -sh /* | sort -h",
          "Clean up Docker resources: docker system prune -a",
          "Remove old log files and temporary data",
          "Extend disk size if in cloud environment",
          "Check for log rotation configuration">>,
        <<"Implement disk space monitoring with alerts",
          "Configure log rotation policies",
          "Set up automatic cleanup of temporary files",
          "Use separate volumes for logs and data">>)]

portAlreadyInUse ==
    [ID |-> "port_in_use",
     Keywords |-> {<<"a", "d", "d", "r", "e", "s", "s", " ", "a", "l", "r",
                   "e", "a", "d", "y", " ", "i", "n", " ", "u", "s", "e">>,
                   <<"e", "a", "d", "d", "r", "i", "n", "u", "s", "e">>,
                   <<"p", "o", "r", "t", " ", "i", "s", " ", "a", "l", "r",
                   "e", "a", "d", "y", " ", "a", "l", "l", "o", "c", "a",
                   "t", "e", "d">>},
     Patterns |-> {
        \* (?i)address already in use
        [re |-> <<Lit(<<"a", "d", "d", "r", "e", "s", "s", " ", "a", "l",
               "r", "e", "a", "d", "y", " ", "i", "n", " ", "u", "s",
               "e">>)>>],
        \* (?i)EADDRINUSE
        [re |-> <<Lit(<<"e", "a", "d", "d", "r", "i", "n", "u", "s", "e">>)>>],
        \* (?i)bind.*port.*already
        [re |-> <<Lit(<<"b", "i", "n", "d">>), Chr({"\n"}, TRUE, 0, -1),
               Lit(<<"p", "o", "r", "t">>), Chr({"\n"}, TRUE, 0, -1),
               Lit(<<"a", "l", "r", "e", "a", "d", "y">>)>>],
        \* (?i)port\s+\d+.*is already allocated
        [re |-> <<Lit(<<"p", "o", "r", "t">>), Chr(Space, FALSE, 1, -1),
               Chr(Digit, FALSE, 1, -1), Chr({"\n"}, TRUE, 0, -1),
               Lit(<<"i", "s", " ", "a", "l", "r", "e", "a", "d", "y", " ",
               "a", "l", "l", "o", "c", "a", "t", "e", "d">>)>>]},
     Confidence |-> 95,
     Result |-> AnalysisResult(
        "port_already_in_use", "Medium",
        "The application cannot bind to the specified port because another process is already using it.",
        <<"Find the process using the port: lsof -i :<port> or netstat -tlnp",
          "Stop the conflicting process or service",
          "Configure the application to use a different port",
          "Check for zombie processes from previous runs">>,
        <<"Use unique ports for each service",
          "Implement graceful shutdown to release ports",
          "Use port 0 for dynamic port allocation in tests",
          "Document port assignments in project documentation">>)]

authenticationFailure ==
    [ID |-> "authentication_failure",
     Keywords |-> {<<"a", "u", "t", "h", "e", "n", "t", "i", "c", "a", "t",
                   "i", "o", "n", " ", "f", "a", "i", "l", "e", "d">>,
                   <<"u", "n", "a", "u", "t", "h", "o", "r", "i", "z", "e",
                   "d">>, <<"a", "c", "c", "e", "s", "s", " ", "d", "e",
                   "n", "i", "e", "d">>, <<"i", "n", "v", "a", "l", "i",
                   "d", " ", "c", "r", "e", "d", "e", "n", "t", "i", "a",
                   "l", "s">>},
     Patterns |-> {
        \* (?i)authentication\s+failed
        [re |-> <<Lit(<<"a", "u", "t", "h", "e", "n", "t", "i", "c", "a",
               "t", "i", "o", "n">>), Chr(Space, FALSE, 1, -1), Lit(<<"f",
               "a", "i", "l", "e", "d">>)>>],
        \* (?i)401\s+unauthorized
        [re |-> <<Lit(<<"4", "0", "1">>), Chr(Space, FALSE, 1, -1),
               Lit(<<"u", "n", "a", "u", "t", "h", "o", "r", "i", "z", "e",
               "d">>)>>],
        \* (?i)403\s+forbidden
        [re |-> <<Lit(<<"4", "0", "3">>), Chr(Space, FALSE, 1, -1),
               Lit(<<"f", "o", "r", "b", "i", "d", "d", "e", "n">>)>>],
        \* (?i)invalid\s+(credentials|token|api.?key)
        [re |-> <<Lit(<<"i", "n", "v", "a", "l", "i", "d">>), Chr(Space,
               FALSE, 1, -1), Grp(<<<<Lit(<<"c", "r", "e", "d", "e", "n",
               "t", "i", "a", "l", "s">>)>>, <<Lit(<<"t", "o", "k", "e",
               "n">>)>>, <<Lit(<<"a", "p", "i">>), Chr({"\n"}, TRUE, 0, 1),
               Lit(<<"k", "e", "y">>)>>>>, 1, 1)>>],
        \* (?i)access\s+denied
        [re |-> <<Lit(<<"a", "c", "c", "e", "s", "s">>), Chr(Space, FALSE, 1,
               -1), Lit(<<"d", "e", "n", "i", "e", "d">>)>>]},
     Confidence |-> 85,
     Result |-> AnalysisResult(
        "authentication_failure", "High",
        "Authentication or authorization failed. Credentials may be invalid, expired, or missing. The user/service may also lack required permissions.",
        <<"Verify credentials are correct and not expired",
          "Check if API keys or tokens need renewal",
          "Verify the service account has required permissions",
          "Check for environment variable configuration issues",
          "Review IAM policies and role assignments">>,
        <<"Use secret management systems (Vault, AWS Secrets Manager)",
          "Implement credential rotation policies",
          "Use service accounts with minimal required permissions",
          "Monitor for authentication failures in security logs">>)]

kubernetesImagePullBackoff ==
    [ID |-> "k8s_image_pull_backoff",
     Keywords |-> {<<"i", "m", "a", "g", "e", "p", "u", "l", "l", "b", "a",
                   "c", "k", "o", "f", "f">>, <<"e", "r", "r", "i", "m",
                   "a", "g", "e", "p", "u", "l", "l">>, <<"f", "a", "i",
                   "l", "e", "d", " ", "t", "o", " ", "p", "u", "l", "l",
                   " ", "i", "m", "a", "g", "e">>},
     Patterns |-> {
        \* (?i)ImagePullBackOff
        [re |-> <<Lit(<<"i", "m", "a", "g", "e", "p", "u", "l", "l", "b",
               "a", "c", "k", "o", "f", "f">>)>>],
        \* (?i)ErrImagePull
        [re |-> <<Lit(<<"e", "r", "r", "i", "m", "a", "g", "e", "p", "u",
               "l", "l">>)>>],
        \* (?i)failed to pull image
        [re |-> <<Lit(<<"f", "a", "i", "l", "e", "d", " ", "t", "o", " ",
               "p", "u", "l", "l", " ", "i", "m", "a", "g", "e">>)>>],
        \* (?i)rpc error.*pulling image
        [re |-> <<Lit(<<"r", "p", "c", " ", "e", "r", "r", "o", "r">>),
               Chr({"\n"}, TRUE, 0, -1), Lit(<<"p", "u", "l", "l", "i", "n",
               "g", " ", "i", "m", "a", "g", "e">>)>>]},
     Confidence |-> 95,
     Result |-> AnalysisResult(
        "kubernetes_image_pull_failure", "High",
        "Kubernetes cannot pull the specified container image. This could be due to image not existing, registry authentication issues, network problems, or incorrect image name/tag.",
        <<"Verify the image name and tag are correct",
          "Check if the image exists in the registry",
          "Verify imagePullSecrets are configured correctly",
          "Test registry connectivity from the cluster",
          "Check if the registry requires authentication">>,
        <<"Use image digests instead of mutable tags",
          "Implement CI/CD checks for image availability",
          "Configure proper registry credentials in secrets",
          "Use a container registry with high availability">>)]

\* rules.DefaultRules
DefaultRules ==
    << dockerBuildPermissionDenied, dockerDaemonNotRunning,
       npmInstallFailure, outOfMemory, connectionTimeout,
       sslCertificateError, diskSpaceFull, portAlreadyInUse,
       authenticationFailure, kubernetesImagePullBackoff >>

\* the table NewEngine stores in the Engine: DefaultRules() as cmd/server
\* passes it (t = "default"), or the small table
NewRules(t) == IF t = "default" THEN DefaultRules ELSE testRules

\* Engine.rules
rules == ruleTable

\* regexp.MatchString
MatchString(p, s) ==
    IF "re" \in DOMAIN p
    THEN ReMatchString(p.re, s)
    ELSE \E i \in 1..Len(s) : s[i] \in p.cls

\* Rule.Match without the regular expressions
Match_KeywordsOnly(r, l) ==
    \E kw \in r.Keywords : Contains(ToLower(l), ToLower(kw))

\* Rule.Match
Match(r, l) ==
    \/ \E kw \in r.Keywords : Contains(ToLower(l), ToLower(kw))
    \/ \E p \in r.Patterns : MatchString(p, l)

RECURSIVE EngineAnalyzeFrom_FirstOnly(_, _)
\* Engine.Analyze returning at the first matching rule
EngineAnalyzeFrom_FirstOnly(l, i) ==
    IF i > Len(rules) THEN <<>>
    ELSE IF Match(rules[i], l)
         THEN << [RuleID |-> rules[i].ID,
                  Confidence |-> rules[i].Confidence,
                  Result |-> rules[i].Result] >>
         ELSE EngineAnalyzeFrom_FirstOnly(l, i + 1)

RECURSIVE EngineAnalyzeFrom(_, _)
EngineAnalyzeFrom(l, i) ==
    IF i > Len(rules) THEN <<>>
    ELSE (IF Match(rules[i], l)
          THEN << [RuleID |-> rules[i].ID,
                   Confidence |-> rules[i].Confidence,
                   Result |-> rules[i].Result] >>
          ELSE <<>>)
         \o EngineAnalyzeFrom(l, i + 1)

\* Engine.Analyze
EngineAnalyze(l) == EngineAnalyzeFrom(l, 1)

\* BestStep with >= in place of >: of equal confidences the last one wins
BestStep_LastWins(best, m, thr) ==
    IF m.Confidence >= thr
    THEN (IF best = Nil \/ m.Confidence >= best.Confidence THEN m ELSE best)
    ELSE best

\* BestStep that wants a confidence strictly above the threshold
BestStep_AboveThreshold(best, m, thr) ==
    IF m.Confidence > thr
    THEN (IF best = Nil \/ m.Confidence > best.Confidence THEN m ELSE best)
    ELSE best

\* the loop body of GetBestMatch: does match m replace best?
BestStep(best, m, thr) ==
    IF m.Confidence >= thr
    THEN (IF best = Nil \/ m.Confidence > best.Confidence THEN m ELSE best)
    ELSE best

RECURSIVE BestFrom(_, _, _, _)
BestFrom(matches, i, best, thr) ==
    IF i > Len(matches) THEN best
    ELSE BestFrom(matches, i + 1, BestStep(best, matches[i], thr), thr)

\* Engine.GetBestMatch
GetBestMatch(matches, thr) ==
    IF Len(matches) = 0 THEN Nil ELSE BestFrom(matches, 1, Nil, thr)

\* Engine.ShouldUseRuleResult
ShouldUseRuleResult(matches, thr) ==
    LET best == GetBestMatch(matches, thr)
    IN  best # Nil /\ best.Confidence >= thr

\* ------------------------------------------------------------- validator
\* Validate without the severity check
Validate_SeverityAny(r) ==
    IF r = Nil
    THEN WrapError("validate", "result is nil", FALSE)
    ELSE IF r.ErrorType = "" \/ r.RootCause = ""
            \/ Len(r.SuggestedActions) = 0
            \/ (\E i \in 1..Len(r.SuggestedActions) : r.SuggestedActions[i] = "")
            \/ (\E i \in 1..Len(r.PreventionTips) : r.PreventionTips[i] = "")
    THEN WrapError("validate", ErrInvalidAIResponse, FALSE)
    ELSE Nil

\* DefaultValidator.Validate: Nil when the result passes, else the error
Validate(r) ==
    IF r = Nil
    THEN WrapError("validate", "result is nil", FALSE)
    ELSE IF r.ErrorType = ""
    THEN WrapError("validate_error_type",
                   ErrInvalidAIResponse \o ": error_type is required", FALSE)
    ELSE IF ~IsValid(r.Severity)
    THEN WrapError("validate_severity",
                   ErrInvalidAIResponse \o ": severity must be Low, Medium, or High",
                   FALSE)
    ELSE IF r.RootCause = ""
    THEN WrapError("validate_root_cause",
                   ErrInvalidAIResponse \o ": root_cause is required", FALSE)
    ELSE IF Len(r.SuggestedActions) = 0
    THEN WrapError("validate_suggested_actions",
                   ErrInvalidAIResponse \o ": at least one suggested_action is required",
                   FALSE)
    ELSE IF \E i \in 1..Len(r.SuggestedActions) : r.SuggestedActions[i] = ""
    THEN WrapError("validate_suggested_actions",
                   ErrInvalidAIResponse \o ": suggested_action is empty", FALSE)
    ELSE IF \E i \in 1..Len(r.PreventionTips) : r.PreventionTips[i] = ""
    THEN WrapError("validate_prevention_tips",
                   ErrInvalidAIResponse \o ": prevention_tip is empty", FALSE)
    ELSE Nil

\* ------------------------------------------------- the external service
\* What the reasoning service does with one request attempt.
\*   kind    "transport_error": httpClient.Do returns an error (dial failure,
\*           reset, http.Client.Timeout); "read_error": reading the response
\*           body fails; "http": a response with a status and a body
\*   parses  the body unmarshals into the provider's envelope
\*   apiError, blocked, choices, safety, parts: fields of the envelope
\*   content the reply text: "" (empty), "prose" (no JSON object in it),
\*           "mistyped" (a JSON object that does not unmarshal into
\*           AnalysisResult), "object" (unmarshals into obj)
Reply(kind, status, parses, apiError, blocked, choices, safety, parts, content, obj) ==
    [kind |-> kind, status |-> status, parses |-> parses,
     apiError |-> apiError, blocked |-> blocked, choices |-> choices,
     safety |-> safety, parts |-> parts, content |-> content, obj |-> obj]

NoObj == AnalysisResult("", "", "", <<>>, <<>>)

HttpStatus(st) == Reply("http", st, TRUE, FALSE, FALSE, 0, FALSE, 0, "", NoObj)

Ok200(content, obj) ==
    Reply("http", 200, TRUE, FALSE, FALSE, 1, FALSE, 1, content, obj)

ValidResult ==
    AnalysisResult("svc_error", "High", "svc cause", <<"svc act">>, <<"svc tip">>)

\* the objects a reply can carry: one that satisfies the schema, and one
\* violating each rule of it
Objects ==
    { ValidResult,
      AnalysisResult("svc_error", "High", "svc cause", <<"svc act">>, <<>>),
      AnalysisResult("", "High", "svc cause", <<"svc act">>, <<>>),
      AnalysisResult("svc_error", "Critical", "svc cause", <<"svc act">>, <<>>),
      AnalysisResult("svc_error", "Low", "", <<"svc act">>, <<>>),
      AnalysisResult("svc_error", "Low", "svc cause", <<>>, <<>>),
      AnalysisResult("svc_error", "Low", "svc cause", <<"svc act", "">>, <<>>),
      AnalysisResult("svc_error", "Medium", "svc cause", <<"svc act">>, <<"">>) }

Replies ==
    { Reply("transport_error", 0, FALSE, FALSE, FALSE, 0, FALSE, 0, "", NoObj),
      Reply("read_error", 200, FALSE, FALSE, FALSE, 0, FALSE, 0, "", NoObj),
      HttpStatus(400), HttpStatus(401), HttpStatus(429), HttpStatus(503),
      Reply("http", 200, FALSE, FALSE, FALSE, 0, FALSE, 0, "", NoObj),
      Reply("http", 200, TRUE, TRUE, FALSE, 0, FALSE, 0, "", NoObj),
      Reply("http", 200, TRUE, FALSE, TRUE, 0, FALSE, 0, "", NoObj),
      Reply("http", 200, TRUE, FALSE, FALSE, 0, FALSE, 0, "", NoObj),
      Reply("http", 200, TRUE, FALSE, FALSE, 1, TRUE, 1, "object", ValidResult),
      Reply("http", 200, TRUE, FALSE, FALSE, 1, FALSE, 0, "", NoObj),
      Ok200("", NoObj), Ok200("prose", NoObj), Ok200("mistyped", NoObj) }
    \cup { Ok200("object", o) : o \in Objects }

\* ------------------------------------------------------ reasoning clients
\* the pair (result, error) a Go function returns
Ret(res, err) == [result |-> res, err |-> err]

\* parseAnalysisResult (both clients): extractJSON finds no object in ""
\* and in prose; json.Unmarshal rejects a mistyped object
parseAnalysisResult(r) ==
    IF r.content \in {"", "prose"}
    THEN Ret(Nil, WrapError("extract_json", ErrInvalidAIResponse, FALSE))
    ELSE IF r.content = "mistyped"
    THEN Ret(Nil, WrapError("unmarshal_result", ErrInvalidAIResponse, FALSE))
    ELSE Ret(r.obj, Nil)

\* does the Analyze of client c, returning the result of reply r, call
\* validator.Validate on it?  The two network clients do at the end of
\* executeRequest, once the content parsed; MockClient has no validator
\* and Analyzer.Analyze calls none.
ValidateCalled(c, r) ==
    /\ c \in {"openai", "gemini"}
    /\ r # Nil
    /\ parseAnalysisResult(r).err = Nil

\* the tail of executeRequest without the validator call
ParseAndValidate_NoValidate(r) == parseAnalysisResult(r)

\* parse, then validate: the tail of both executeRequest methods
ParseAndValidate(r) ==
    LET parsed == parseAnalysisResult(r)
    IN  IF parsed.err # Nil THEN parsed
        ELSE IF Validate(parsed.result) # Nil
             THEN Ret(Nil, Validate(parsed.result))
             ELSE parsed

\* OpenAIClient.executeRequest.  doFails: httpClient.Do returned an error;
\* c is the context's state when it did.
OpenAIExecuteRequest(r, c, doFails) ==
    IF doFails
    THEN (IF c # "active"
          THEN Ret(Nil, WrapError("ai_timeout", ErrAITimeout, TRUE))
          ELSE Ret(Nil, WrapError("http_request", "transport error", TRUE)))
    ELSE IF r.kind = "read_error"
    THEN Ret(Nil, WrapError("read_response", "read error", TRUE))
    ELSE IF r.status # 200
    THEN (IF r.status = 429
          THEN Ret(Nil, WrapError("rate_limit", ErrRateLimited, TRUE))
          ELSE IF r.status >= 500
          THEN Ret(Nil, WrapError("ai_unavailable", ErrAIUnavailable, TRUE))
          ELSE Ret(Nil, WrapError("ai_error", "AI API returned status", FALSE)))
    ELSE IF ~r.parses
    THEN Ret(Nil, WrapError("parse_response", "invalid character", FALSE))
    ELSE IF r.apiError
    THEN Ret(Nil, WrapError("ai_api_error", "api error", FALSE))
    ELSE IF r.choices = 0
    THEN Ret(Nil, WrapError("empty_response", ErrInvalidAIResponse, FALSE))
    ELSE ParseAndValidate(r)

\* a handleHTTPError that lets the loop retry a 408 Request Timeout
handleHTTPError_RetryTimeout(st) ==
    IF st = 429 THEN Ret(Nil, WrapError("rate_limit", ErrRateLimited, TRUE))
    ELSE IF st = 408 \/ st >= 500
    THEN Ret(Nil, WrapError("gemini_unavailable", ErrAIUnavailable, TRUE))
    ELSE Ret(Nil, WrapError("gemini_error", "Gemini API returned status", FALSE))

\* GeminiClient.handleHTTPError
handleHTTPError(st) ==
    IF st = 429 THEN Ret(Nil, WrapError("rate_limit", ErrRateLimited, TRUE))
    ELSE IF st \in {401, 403}
    THEN Ret(Nil, WrapError("auth_error", "authentication failed", FALSE))
    ELSE IF st = 400
    THEN Ret(Nil, WrapError("bad_request", "bad request", FALSE))
    ELSE IF st = 404
    THEN Ret(Nil, WrapError("model_not_found", "model not found", FALSE))
    ELSE IF st >= 500
    THEN Ret(Nil, WrapError("gemini_unavailable", ErrAIUnavailable, TRUE))
    ELSE Ret(Nil, WrapError("gemini_error", "Gemini API returned status", FALSE))

\* GeminiClient.executeRequest
GeminiExecuteRequest(r, c, doFails) ==
    IF doFails
    THEN (IF c # "active"
          THEN Ret(Nil, WrapError("gemini_timeout", ErrAITimeout, TRUE))
          ELSE Ret(Nil, WrapError("http_request", "transport error", TRUE)))
    ELSE IF r.kind = "read_error"
    THEN Ret(Nil, WrapError("read_response", "read error", TRUE))
    ELSE IF r.status # 200 THEN handleHTTPError(r.status)
    ELSE IF ~r.parses
    THEN Ret(Nil, WrapError("parse_response", "invalid character", FALSE))
    ELSE IF r.apiError
    THEN Ret(Nil, WrapError("gemini_api_error", "api error", FALSE))
    ELSE IF r.blocked
    THEN Ret(Nil, WrapError("content_blocked", "prompt blocked", FALSE))
    ELSE IF r.choices = 0
    THEN Ret(Nil, WrapError("empty_response", ErrInvalidAIResponse, FALSE))
    ELSE IF r.safety
    THEN Ret(Nil, WrapError("safety_filter", "response blocked by safety filter", FALSE))
    ELSE IF r.parts = 0
    THEN Ret(Nil, WrapError("empty_content", ErrInvalidAIResponse, FALSE))
    ELSE IF r.content = ""
    THEN Ret(Nil, WrapError("empty_text", ErrInvalidAIResponse, FALSE))
    ELSE ParseAndValidate(r)

\* a mock result without suggested actions
MockAnalyze_NoActions ==
    Ret(AnalysisResult("mock_error", "Medium", "This is a mock response",
                       <<>>, <<"Use real AI for production analysis">>),
        Nil)

\* a mock whose Analyze fails
MockAnalyze_Fails == Ret(Nil, WrapError("mock", ErrAIUnavailable, FALSE))

\* MockClient.HealthCheck with the context in state c: the nil error
MockHealthCheck(c) == Nil

\* MockClient.Analyze
MockAnalyze ==
    Ret(AnalysisResult("mock_error", "Medium", "This is a mock response",
                       <<"Configure AI_API_KEY", "Set AI_MOCK_MODE=false">>,
                       <<"Use real AI for production analysis">>),
        Nil)

\* -------------------------------------------------------- the retry loop
\* the loop condition off by one
LoopContinues_OneMore(a, mr) == a <= mr + 1

\* the condition of `for attempt := 0; attempt <= c.config.MaxRetries`
LoopContinues(a, mr) == a <= mr

\* a wait that grows linearly with the attempt
BackoffOf_Linear(a) == a

\* backoff := time.Duration(attempt*attempt) * time.Second, in seconds
BackoffOf(a) == a * a

\* a loop that retries after every error
ShouldRetry_Always(err) == TRUE

\* `if !domain.IsRetryable(lastErr) { break }`: does the loop go on?
ShouldRetry(err) == IsRetryable(err)

\* a select whose timer case is never ready
SelectBackoff_NoTimer(c) == IF c # "active" THEN "ctx_done" ELSE "blocked"

\* a plain time.Sleep in place of the select
SelectBackoff_Sleep(c) == "timer"

\* the select of the backoff wait: the case taken when the goroutine wakes
\* up with the context in state c.  The timer is never ready at once
\* (the wait is at least a second), so a context that is done wins.
SelectBackoff(c) == IF c # "active" THEN "ctx_done" ELSE "timer"

\* the error returned by the ctx.Done() case of the select
CancelledError(c) == WrapError("context_cancelled", CtxErr(c), FALSE)

\* the statements after the loop: `if lastErr != nil { return nil, lastErr }`
\* ... `return result, nil`
AfterLoop(res, err) == IF err # Nil THEN Ret(Nil, err) ELSE Ret(res, Nil)

\* executeRequest of the configured network-backed client
ExecuteRequest(cl, r, c, doFails) ==
    IF cl = "openai" THEN OpenAIExecuteRequest(r, c, doFails)
    ELSE GeminiExecuteRequest(r, c, doFails)

\* how a reply is classified when a well-formed request reached the service
SvcClass(cl, r) ==
    LET out == ExecuteRequest(cl, r, "active", r.kind = "transport_error")
    IN  IF out.err = Nil THEN "ok"
        ELSE IF IsRetryable(out.err) THEN "retryable" ELSE "fatal"

\* --------------------------------------------------------------- analyzer
Response(success, res, err, source) ==
    [Success |-> success, Result |-> res, Error |-> err, Source |-> source]

\* an empty-log rejection that names the step that rejected as its source
EmptyLogResponse_Sourced ==
    Ret(Response(FALSE, Nil, ErrEmptyLog, "validation"), Nil)

\* Analyzer.Analyze step 1: the empty-log rejection
EmptyLogResponse == Ret(Response(FALSE, Nil, ErrEmptyLog, ""), Nil)

\* the fast path's response with the bare rule id as its source
RuleResponse_BareID(matches, thr) ==
    LET best == GetBestMatch(matches, thr)
    IN  Ret(Response(TRUE, best.Result, "", best.RuleID), Nil)

\* Analyzer.Analyze step 3: the response of the rule fast path
RuleResponse(matches, thr) ==
    LET best == GetBestMatch(matches, thr)
    IN  Ret(Response(TRUE, best.Result, "", "rules:" \o best.RuleID), Nil)

\* step 4 falling back on the rules whether they are enabled or not
AfterAI_FallbackAlways(res, err, enabled, slog, thr) ==
    IF err # Nil
    THEN LET matches == EngineAnalyze(slog)
             best == GetBestMatch(matches, thr)
         IN  IF Len(matches) > 0 /\ best # Nil
             THEN Ret(Response(TRUE, best.Result, "",
                               "rules_fallback:" \o best.RuleID), Nil)
             ELSE Ret(Response(FALSE, Nil, ErrorString(err), ""), Nil)
    ELSE Ret(Response(TRUE, res, "", "ai"), Nil)

\* step 4 returning the client's error as its own
AfterAI_Propagate(res, err, enabled, slog, thr) ==
    IF err # Nil
    THEN Ret(Nil, err)
    ELSE Ret(Response(TRUE, res, "", "ai"), Nil)

\* Analyzer.Analyze step 4, after aiClient.Analyze returned (res, err);
\* slog is the sanitized log.  The pair is (response, error).
AfterAI(res, err, enabled, slog, thr) ==
    IF err # Nil
    THEN LET matches == EngineAnalyze(slog)
             best == GetBestMatch(matches, thr)
         IN  IF enabled /\ Len(matches) > 0 /\ best # Nil
             THEN Ret(Response(TRUE, best.Result, "",
                               "rules_fallback:" \o best.RuleID), Nil)
             ELSE Ret(Response(FALSE, Nil, ErrorString(err), ""), Nil)
    ELSE Ret(Response(TRUE, res, "", "ai"), Nil)

\* ------------------------------------------------------------------ Init
\* the state of a request that has just been received
Fresh ==
    /\ ctx = "active"
    /\ pc = "received"
    /\ sanitizedLog = <<>>
    /\ stats = NoStats
    /\ attempt = 0
    /\ backoff = 0
    /\ result = Nil
    /\ lastErr = Nil
    /\ bodyConsumed = FALSE
    /\ clientRet = Nil
    /\ response = Nil
    /\ retErr = Nil
    /\ sanitizeCalls = 0
    /\ ruleEvals = 0
    /\ aiCalls = 0
    /\ attempts = 0
    /\ waits = <<>>
    /\ svcLog = <<>>
    /\ lastSvc = Nil
    /\ cancelledAt = ""
    /\ attemptsAtCancel = 0
    /\ workers = <<>>
    /\ fn = ""
    /\ arg = Nil
    /\ fnRet = Nil

Init ==
    /\ log \in Logs
    /\ enableRules \in BOOLEAN
    /\ threshold \in (IF enableRules THEN {40, 80} ELSE {80})
    /\ client \in {"openai", "gemini", "mock"}
    /\ maxRetries \in (-1)..MaxRetriesBound
    /\ table = "test"
    /\ maxSize = MaxSize
    /\ ruleTable = NewRules(table)
    /\ patternList = NewPatterns(table)
    /\ Fresh

\* a sanitizer whose ceiling is below the longest logs
InitTight ==
    /\ log \in Logs
    /\ enableRules \in BOOLEAN
    /\ threshold \in (IF enableRules THEN {40, 80} ELSE {80})
    /\ client \in {"openai", "gemini", "mock"}
    /\ maxRetries \in (-1)..MaxRetriesBound
    /\ table = "test"
    /\ maxSize = MaxSize - 1
    /\ ruleTable = NewRules(table)
    /\ patternList = NewPatterns(table)
    /\ Fresh

\* --------------------------------------- the default construction
\* config.Load's defaults
DefaultMaxLogSize == 50000

\* rules_test.go: the documented docker scenario
dockerBuildLog ==
    <<"E", "R", "R", "O", "R", ":", " ", "d", "o", "c", "k", "e", "r",
      " ", "b", "u", "i", "l", "d", " ", "f", "a", "i", "l", "e", "d", ":",
      " ", "p", "e", "r", "m", "i", "s", "s", "i", "o", "n", " ", "d", "e",
      "n", "i", "e", "d">>

\* rules_test.go: npm install error
npmLog ==
    <<"n", "p", "m", " ", "E", "R", "R", "!", " ", "c", "o", "d", "e",
      " ", "E", "N", "O", "E", "N", "T", "\n", "n", "p", "m", " ", "E", "R",
      "R", "!", " ", "s", "y", "s", "c", "a", "l", "l", " ", "o", "p", "e",
      "n">>

\* rules_test.go: a log no rule matches
startedLog ==
    <<"I", "N", "F", "O", ":", " ", "A", "p", "p", "l", "i", "c", "a",
      "t", "i", "o", "n", " ", "s", "t", "a", "r", "t", "e", "d", " ", "s",
      "u", "c", "c", "e", "s", "s", "f", "u", "l", "l", "y">>

\* a log with two failures
dockerDiskLog ==
    <<"d", "o", "c", "k", "e", "r", " ", "b", "u", "i", "l", "d", ":",
      " ", "p", "e", "r", "m", "i", "s", "s", "i", "o", "n", " ", "d", "e",
      "n", "i", "e", "d", ",", " ", "n", "o", " ", "s", "p", "a", "c", "e",
      " ", "l", "e", "f", "t", " ", "o", "n", " ", "d", "e", "v", "i", "c",
      "e">>

DefaultLogs == {dockerBuildLog, npmLog, startedLog, dockerDiskLog}

\* The components as cmd/server constructs them: rules.DefaultRules(),
\* sanitizer.New(MaxLogSize).  The threshold is the default 0.8 or 0.9, and
\* the client retries at most once.
InitDefault ==
    /\ log \in DefaultLogs
    /\ enableRules \in BOOLEAN
    /\ threshold \in (IF enableRules THEN {80, 90} ELSE {80})
    /\ client \in {"openai", "gemini", "mock"}
    /\ maxRetries \in {0, 1}
    /\ table = "default"
    /\ maxSize = DefaultMaxLogSize
    /\ ruleTable = NewRules(table)
    /\ patternList = NewPatterns(table)
    /\ Fresh

\* --------------------------------------------------------------- actions
clientVars == <<attempt, backoff, result, lastErr, bodyConsumed, attempts,
                waits, svcLog, lastSvc>>

configVars == <<log, enableRules, threshold, client, maxRetries, table,
                maxSize, ruleTable, patternList>>

\* the variables of a function called on its own
fnVars == <<fn, arg, fnRet>>

\* aiClient.Analyze returned ret: the Analyzer finishes the request
Finish(ret, evals, slog) ==
    LET out == AfterAI(ret.result, ret.err, enableRules, slog, threshold)
    IN  /\ clientRet' = ret
        /\ response' = out.result
        /\ retErr' = out.err
        /\ ruleEvals' = evals + (IF ret.err # Nil /\ enableRules THEN 1 ELSE 0)
        /\ pc' = "done"

\* Analyzer.Analyze from its entry to the first suspension point
AnalyzeStart ==
    /\ pc = "received"
    /\ UNCHANGED <<configVars, fnVars, workers, ctx, cancelledAt, attemptsAtCancel>>
    /\ IF IsEmpty(log)
       THEN /\ response' = EmptyLogResponse.result
            /\ retErr' = EmptyLogResponse.err
            /\ pc' = "done"
            /\ UNCHANGED <<sanitizedLog, stats, clientRet, sanitizeCalls,
                           ruleEvals, aiCalls, clientVars>>
       ELSE LET sw == SanitizeWithStats(log)
                matches == EngineAnalyze(sw.text)
                evals == ruleEvals + (IF enableRules THEN 1 ELSE 0)
            IN  /\ sanitizedLog' = sw.text
                /\ stats' = sw.stats
                /\ sanitizeCalls' = sanitizeCalls + 1
                /\ IF enableRules /\ ShouldUseRuleResult(matches, threshold)
                   THEN /\ response' = RuleResponse(matches, threshold).result
                        /\ retErr' = RuleResponse(matches, threshold).err
                        /\ ruleEvals' = evals
                        /\ pc' = "done"
                        /\ UNCHANGED <<clientRet, aiCalls, clientVars>>
                   ELSE /\ aiCalls' = aiCalls + 1
                        /\ IF client = "mock"
                           THEN /\ Finish(MockAnalyze, evals, sw.text)
                                /\ UNCHANGED clientVars
                           ELSE IF LoopContinues(0, maxRetries)
                           THEN \* first iteration: no wait, request sent
                                /\ pc' = "inflight"
                                /\ ruleEvals' = evals
                                /\ UNCHANGED <<clientRet, response, retErr,
                                               clientVars>>
                           ELSE \* the loop body never runs: result and
                                \* lastErr are nil and result.ErrorType
                                \* is dereferenced
                                /\ pc' = "panic"
                                /\ ruleEvals' = evals
                                /\ UNCHANGED <<clientRet, response, retErr,
                                               clientVars>>

\* the caller cancels the context, or its deadline expires
CtxCancel ==
    /\ pc \in {"received", "inflight", "backoff"}
    /\ ctx = "active"
    /\ ctx' \in {"canceled", "deadline"}
    /\ cancelledAt' = pc
    /\ attemptsAtCancel' = attempts
    /\ UNCHANGED <<configVars, fnVars, workers, pc, sanitizedLog, stats, clientRet, response,
                   retErr, sanitizeCalls, ruleEvals, aiCalls, clientVars>>

\* one request attempt returns, and the loop runs to its next suspension
\* point or to the client's return.  r is what the service does with the
\* attempt.  httpClient.Do fails on a transport error and on a context that
\* is done.  OpenAIClient sends the one request object built before the
\* loop, so a retry may find its body reader at EOF, left there by an
\* earlier attempt: the transport then either rewinds the body (GetBody, on
\* a reused connection) or fails the attempt because the body no longer
\* has ContentLength bytes; rewound chooses between the two.
RequestAttempt(r, rewound) ==
    LET stale == client = "openai" /\ bodyConsumed /\ ~rewound
        doFails == r.kind = "transport_error" \/ ctx # "active" \/ stale
        out == ExecuteRequest(client, r, ctx, doFails)
    IN  /\ pc = "inflight"
        \* Do returns the context's error without a reply once ctx is done
        /\ (ctx # "active" => r.kind = "transport_error")
        /\ attempts' = attempts + 1
        /\ svcLog' = Append(svcLog, SvcClass(client, r))
        /\ lastSvc' = r
        /\ result' = out.result
        /\ lastErr' = out.err
        /\ IF client = "openai"
           THEN IF bodyConsumed \/ ~doFails
                THEN bodyConsumed' = TRUE
                ELSE bodyConsumed' \in BOOLEAN
           ELSE bodyConsumed' = bodyConsumed
        /\ UNCHANGED <<configVars, fnVars, workers, ctx, cancelledAt, attemptsAtCancel,
                       sanitizedLog, stats, sanitizeCalls, aiCalls, waits>>
        /\ IF out.err = Nil \/ ~ShouldRetry(out.err)
           THEN /\ Finish(AfterLoop(out.result, out.err), ruleEvals, sanitizedLog)
                /\ UNCHANGED <<attempt, backoff>>
           ELSE /\ attempt' = attempt + 1
                /\ IF LoopContinues(attempt + 1, maxRetries)
                   THEN /\ pc' = "backoff"
                        /\ backoff' = BackoffOf(attempt + 1)
                        /\ UNCHANGED <<clientRet, response, retErr, ruleEvals>>
                   ELSE /\ Finish(AfterLoop(out.result, out.err), ruleEvals, sanitizedLog)
                        /\ UNCHANGED backoff

\* the backoff timer fires and the next attempt is sent
BackoffElapsed ==
    /\ pc = "backoff"
    /\ SelectBackoff(ctx) = "timer"
    /\ waits' = Append(waits, backoff)
    /\ backoff' = 0
    /\ pc' = "inflight"
    /\ UNCHANGED <<configVars, fnVars, workers, ctx, cancelledAt, attemptsAtCancel,
                   sanitizedLog, stats, clientRet, response, retErr,
                   sanitizeCalls, ruleEvals, aiCalls, attempt, result,
                   lastErr, bodyConsumed, attempts, svcLog, lastSvc>>

\* the context is done during the backoff wait
BackoffCancelled ==
    /\ pc = "backoff"
    /\ SelectBackoff(ctx) = "ctx_done"
    /\ Finish(Ret(Nil, CancelledError(ctx)), ruleEvals, sanitizedLog)
    /\ backoff' = 0
    /\ UNCHANGED <<configVars, fnVars, workers, ctx, cancelledAt, attemptsAtCancel,
                   sanitizedLog, stats, sanitizeCalls, aiCalls, attempt,
                   result, lastErr, bodyConsumed, attempts, waits, svcLog,
                   lastSvc>>

Next ==
    \/ AnalyzeStart
    \/ CtxCancel
    \/ \E r \in Replies, rewound \in BOOLEAN : RequestAttempt(r, rewound)
    \/ BackoffElapsed
    \/ BackoffCancelled

Spec == Init /\ [][Next]_vars

SpecTight == InitTight /\ [][Next]_vars

\* the goroutine of the request keeps running: Analyze starts, every
\* request attempt returns (the HTTP client has a timeout), and a backoff
\* wait ends when its timer fires or the context is done.  Nothing obliges
\* the caller to cancel.
Fairness ==
    /\ WF_vars(AnalyzeStart)
    /\ WF_vars(\E r \in Replies, rewound \in BOOLEAN : RequestAttempt(r, rewound))
    /\ WF_vars(BackoffElapsed)
    /\ WF_vars(BackoffCancelled)

\* requests that reach a network client: rules off, one log, every retry
\* budget the loop runs with
InitLive ==
    /\ log \in {<<"o">>, <<"K", "o">>}
    /\ enableRules = FALSE
    /\ threshold = 80
    /\ client \in {"openai", "gemini"}
    /\ maxRetries \in 0..MaxRetriesBound
    /\ table = "test"
    /\ maxSize = MaxSize
    /\ ruleTable = NewRules(table)
    /\ patternList = NewPatterns(table)
    /\ Fresh

SpecLive == InitLive /\ [][Next]_vars /\ Fairness

SpecDefault == InitDefault /\ [][Next]_vars

\* ------------------------------------------------ reply text and JSON
\* encoding/json on the characters reply texts are made of here: braces,
\* the double quote, colon, comma, white space, the tilde and letters
\* that spell no JSON literal.  A value is a string or an object; numbers,
\* arrays, literals and backslash escapes need characters the texts lack.
Quote == "\""

JsonSpace == {" ", "\t", "\n", "\r"}

\* first position from i on that holds no JSON white space
SkipWs(s, i) ==
    LET stop == {j \in i..Len(s) : s[j] \notin JsonSpace}
    IN  IF stop = {} THEN Len(s) + 1 ELSE Min(stop)

\* position after the string that opens at i, 0 if it is not a string
StringEnd(s, i) ==
    IF i > Len(s) \/ s[i] # Quote THEN 0
    ELSE LET close == {j \in (i + 1)..Len(s) : s[j] = Quote}
         IN  IF close = {} THEN 0
             ELSE IF \E j \in (i + 1)..Min(close) : s[j] \in {"\t", "\n", "\r"}
                  THEN 0
                  ELSE Min(close) + 1

RECURSIVE ValueEnd(_, _)
RECURSIVE MembersEnd(_, _)
\* position after the JSON value that starts at i, 0 if there is none
ValueEnd(s, i) ==
    IF i > Len(s) THEN 0
    ELSE IF s[i] = Quote THEN StringEnd(s, i)
    ELSE IF s[i] = "{"
         THEN LET j == SkipWs(s, i + 1)
              IN  IF j > Len(s) THEN 0
                  ELSE IF s[j] = "}" THEN j + 1
                  ELSE MembersEnd(s, j)
    ELSE 0

\* position after the '}' that closes the object whose next member starts
\* at j, 0 if the members are malformed
MembersEnd(s, j) ==
    LET ke == StringEnd(s, j)
        c == SkipWs(s, ke)
        v == SkipWs(s, c + 1)
        ve == ValueEnd(s, v)
        d == SkipWs(s, ve)
    IN  IF ke = 0 \/ c > Len(s) THEN 0
        ELSE IF s[c] # ":" \/ ve = 0 \/ d > Len(s) THEN 0
        ELSE IF s[d] = "}" THEN d + 1
        ELSE IF s[d] = "," THEN MembersEnd(s, SkipWs(s, d + 1))
        ELSE 0

\* isValidJSON: json.Unmarshal into a RawMessage succeeds
isValidJSON(s) ==
    LET e == ValueEnd(s, SkipWs(s, 1))
    IN  e # 0 /\ SkipWs(s, e) > Len(s)

\* depth after position i of the brace count that starts at position start
Depth(s, start, i) ==
    Cardinality({j \in start..i : s[j] = "{"})
    - Cardinality({j \in start..i : s[j] = "}"})

\* extractJSON; <<>> is the empty string
extractJSON(content) ==
    IF isValidJSON(content) THEN content
    ELSE LET opens == {i \in 1..Len(content) : content[i] = "{"}
         IN  IF opens = {} THEN <<>>
             ELSE LET start == Min(opens)
                      ends == {i \in start..Len(content) :
                                  content[i] = "}" /\ Depth(content, start, i) = 0}
                  IN  IF ends = {} THEN <<>>
                      ELSE LET extracted == SubSeq(content, start, Min(ends))
                           IN  IF isValidJSON(extracted) THEN extracted
                               ELSE <<>>

RECURSIVE Members(_, _)
\* the members of a well-formed object, from the member that starts at j
\* on: key text, start of the value and position after the value
Members(s, j) ==
    LET ke == StringEnd(s, j)
        v == SkipWs(s, SkipWs(s, ke) + 1)
        ve == ValueEnd(s, v)
        d == SkipWs(s, ve)
    IN  << [key |-> SubSeq(s, j + 1, ke - 2), v |-> v, ve |-> ve] >>
        \o (IF s[d] = "," THEN Members(s, SkipWs(s, d + 1)) ELSE <<>>)

\* the members of the well-formed object that is the whole of text s
ObjectMembers(s) ==
    LET i == SkipWs(s, 1)
        j == SkipWs(s, i + 1)
    IN  IF s[j] = "}" THEN <<>> ELSE Members(s, j)

\* the json tags of AnalysisResult's string fields
error_type == <<"e", "r", "r", "o", "r", "_", "t", "y", "p", "e">>
severity == <<"s", "e", "v", "e", "r", "i", "t", "y">>
root_cause == <<"r", "o", "o", "t", "_", "c", "a", "u", "s", "e">>

\* the string fields json.Unmarshal sets from well-formed object s: the
\* value of the last member with the field's tag, "" without such a member
FieldValue(s, tag) ==
    LET ms == ObjectMembers(s)
        hits == {k \in 1..Len(ms) : ms[k].key = tag}
    IN  IF hits = {} THEN <<>>
        ELSE SubSeq(s, ms[Max(hits)].v + 1, ms[Max(hits)].ve - 2)

\* json.Unmarshal(jsonContent, &result) succeeds: the text is an object and
\* no string field is given an object
UnmarshalOK(s) ==
    /\ s[SkipWs(s, 1)] = "{"
    /\ LET ms == ObjectMembers(s)
       IN  \A k \in 1..Len(ms) :
              ms[k].key \in {error_type, severity, root_cause}
              => s[ms[k].v] = Quote

\* parseAnalysisResult (both clients) on the reply text
parseContent(content) ==
    LET jsonContent == extractJSON(content)
    IN  IF jsonContent = <<>>
        THEN Ret(Nil, WrapError("extract_json", ErrInvalidAIResponse, FALSE))
        ELSE IF ~UnmarshalOK(jsonContent)
        THEN Ret(Nil, WrapError("unmarshal_result", ErrInvalidAIResponse, FALSE))
        ELSE Ret([ErrorType |-> FieldValue(jsonContent, error_type),
                  Severity |-> FieldValue(jsonContent, severity),
                  RootCause |-> FieldValue(jsonContent, root_cause),
                  SuggestedActions |-> <<>>,
                  PreventionTips |-> <<>>], Nil)

\* ------------------------------------------- functions called on their own
\* The exported functions of the validator, the rule engine and the
\* sanitizer, each called once on an argument drawn from a bounded set.  No
\* request is in progress while they run.
NoRequest ==
    /\ log = <<>> /\ enableRules = FALSE /\ threshold = 80
    /\ client = "mock" /\ maxRetries = 0 /\ ctx = "active"
    /\ sanitizedLog = <<>> /\ stats = NoStats
    /\ attempt = 0 /\ backoff = 0 /\ result = Nil /\ lastErr = Nil
    /\ bodyConsumed = FALSE /\ clientRet = Nil /\ response = Nil
    /\ retErr = Nil /\ sanitizeCalls = 0 /\ ruleEvals = 0 /\ aiCalls = 0
    /\ attempts = 0 /\ waits = <<>> /\ svcLog = <<>> /\ lastSvc = Nil
    /\ cancelledAt = "" /\ attemptsAtCancel = 0
    /\ workers = <<>>

requestVars == <<log, enableRules, threshold, client, maxRetries, ctx,
                 sanitizedLog, stats, attempt, backoff, result, lastErr,
                 bodyConsumed, clientRet, response, retErr, sanitizeCalls,
                 ruleEvals, aiCalls, attempts, waits, svcLog, lastSvc,
                 cancelledAt, attemptsAtCancel>>

\* function f, called on arg, returns value
Return(f, value) ==
    /\ pc = "call" /\ fn = f
    /\ fnRet' = value
    /\ pc' = "returned"
    /\ UNCHANGED <<requestVars, table, maxSize, ruleTable, patternList,
                   workers, fn, arg>>

Returned(f) == pc = "returned" /\ fn = f

\* the lists of at most MaxListLen entries, each empty or not
Lists(S) == UNION {[1..n -> S] : n \in 0..MaxListLen}

\* the results a client hands to the validator, and the nil pointer
ValidateInputs ==
    {Nil} \cup
    { AnalysisResult(et, sev, rc, acts, tips) :
        et \in {"", "svc_error"},
        sev \in {"", "Low", "Medium", "High", "Critical", "low"},
        rc \in {"", "svc cause"},
        acts \in Lists({"", "svc act"}),
        tips \in Lists({"", "svc tip"}) }

CallValidate == Return("Validate", Validate(arg))

\* rule ids of the matches of a match list, by position
MatchIDs == <<"m1", "m2", "m3", "m4", "m5", "m6">>

\* the match list with confidences cs
MatchesOf(cs) ==
    [i \in 1..Len(cs) |->
        [RuleID |-> MatchIDs[i], Confidence |-> cs[i], Result |-> ValidResult]]

\* engines with threshold 0, 0.8 and 1.0, each given every list of at most
\* MaxMatches matches of confidence 0.5, 0.8 or 0.9
GetBestMatchInputs ==
    { [matches |-> MatchesOf(cs), thr |-> t] :
        cs \in UNION {[1..n -> {50, 80, 90}] : n \in 0..MaxMatches},
        t \in {0, 80, 100} }

CallGetBestMatch == Return("GetBestMatch", GetBestMatch(arg.matches, arg.thr))

CallEngineAnalyze == Return("EngineAnalyze", EngineAnalyze(arg))

\* Engine.Analyze followed by GetBestMatch on its result, as the Analyzer
\* calls them
AnalyzeBestInputs == { [log |-> l, thr |-> t] : l \in Logs, t \in {40, 80, 100} }

CallAnalyzeBest ==
    Return("AnalyzeBest",
           LET ms == EngineAnalyze(arg.log)
           IN  [matches |-> ms, best |-> GetBestMatch(ms, arg.thr)])

\* a ceiling one above the length of the redaction marker
WideSize == Len(Redacted) + 1

\* the logs handed to the sanitizer: up to two characters above MaxSize
SanLogs == UNION {[1..n -> Alphabet] : n \in 0..(MaxSize + 2)}

CallSanitizeWithStats == Return("SanitizeWithStats", SanitizeWithStats(arg))

\* Sanitize called on a text, and again on what it returned
CallSanitizeTwice ==
    Return("SanitizeTwice",
           [once |-> Sanitize(arg), twice |-> Sanitize(Sanitize(arg))])

\* the characters of a matched string, by position
MatchChars == <<"a", "b", "c", "d", "e", "f", "g", "h", "i", "j", "k", "l",
                "m", "n", "o", "p">>

\* the matched strings handed to maskValue: every length up to MaxMatchLen,
\* without a separator or with ':' or '=' at one or two positions
MaskInputs ==
    UNION { { [i \in 1..n |-> IF i \in S THEN sep ELSE MatchChars[i]] :
                S \in {T \in SUBSET (1..n) : Cardinality(T) <= 2},
                sep \in {":", "="} } :
            n \in 0..MaxMatchLen }

CallMaskValue == Return("maskValue", maskValue(arg))

\* logs of blanks, tabs, line breaks and a letter, up to one character
\* beyond the ceiling
BlankLogs == UNION {[1..n -> {" ", "\t", "\n", "a"}] : n \in 0..(MaxSize + 1)}

\* Sanitizer.IsEmpty and Sanitizer.IsTooLarge called on arg; neither
\* assigns to a field of the sanitizer
CallPredicates ==
    /\ pc = "call" /\ fn = "Predicates"
    /\ fnRet' = [empty |-> IsEmpty(arg), tooLarge |-> IsTooLarge(arg)]
    /\ pc' = "returned"
    /\ maxSize' = maxSize
    /\ patternList' = patternList
    /\ UNCHANGED <<requestVars, table, ruleTable, workers, fn, arg>>

\* rules_test.go, TestRule_Match: the port-binding errors
PortErrorLogs ==
    {
      \* listen tcp :8080: bind: address already in use
      <<"l", "i", "s", "t", "e", "n", " ", "t", "c", "p", " ", ":", "8",
        "0", "8", "0", ":", " ", "b", "i", "n", "d", ":", " ", "a", "d",
        "d", "r", "e", "s", "s", " ", "a", "l", "r", "e", "a", "d", "y",
        " ", "i", "n", " ", "u", "s", "e">>,
      \* Error: address already in use on port 3000
      <<"E", "r", "r", "o", "r", ":", " ", "a", "d", "d", "r", "e", "s",
        "s", " ", "a", "l", "r", "e", "a", "d", "y", " ", "i", "n", " ",
        "u", "s", "e", " ", "o", "n", " ", "p", "o", "r", "t", " ", "3",
        "0", "0", "0">>,
      \* bind failed: address already in use
      <<"b", "i", "n", "d", " ", "f", "a", "i", "l", "e", "d", ":", " ",
        "a", "d", "d", "r", "e", "s", "s", " ", "a", "l", "r", "e", "a",
        "d", "y", " ", "i", "n", " ", "u", "s", "e">>,
      \* EADDRINUSE: cannot bind to port 8080
      <<"E", "A", "D", "D", "R", "I", "N", "U", "S", "E", ":", " ", "c",
        "a", "n", "n", "o", "t", " ", "b", "i", "n", "d", " ", "t", "o",
        " ", "p", "o", "r", "t", " ", "8", "0", "8", "0">>,
      \* fatal: EADDRINUSE when starting server
      <<"f", "a", "t", "a", "l", ":", " ", "E", "A", "D", "D", "R", "I",
        "N", "U", "S", "E", " ", "w", "h", "e", "n", " ", "s", "t", "a",
        "r", "t", "i", "n", "g", " ", "s", "e", "r", "v", "e", "r">>,
      \* Error: port 5432 is already allocated
      <<"E", "r", "r", "o", "r", ":", " ", "p", "o", "r", "t", " ", "5",
        "4", "3", "2", " ", "i", "s", " ", "a", "l", "r", "e", "a", "d",
        "y", " ", "a", "l", "l", "o", "c", "a", "t", "e", "d">>
    }

\* rules_test.go, TestRule_Match: logs that only mention the phrase, in a
\* hint, a documentation sentence, a tip and a conditional sentence
PortHintLogs ==
    {
      \* [INFO] ServerBoot: Application started. (Hint: If you encounter 'Address already in use' errors, check for zombie processes).
      <<"[", "I", "N", "F", "O", "]", " ", "S", "e", "r", "v", "e", "r",
        "B", "o", "o", "t", ":", " ", "A", "p", "p", "l", "i", "c", "a",
        "t", "i", "o", "n", " ", "s", "t", "a", "r", "t", "e", "d", ".",
        " ", "(", "H", "i", "n", "t", ":", " ", "I", "f", " ", "y", "o",
        "u", " ", "e", "n", "c", "o", "u", "n", "t", "e", "r", " ", "'",
        "A", "d", "d", "r", "e", "s", "s", " ", "a", "l", "r", "e", "a",
        "d", "y", " ", "i", "n", " ", "u", "s", "e", "'", " ", "e", "r",
        "r", "o", "r", "s", ",", " ", "c", "h", "e", "c", "k", " ", "f",
        "o", "r", " ", "z", "o", "m", "b", "i", "e", " ", "p", "r", "o",
        "c", "e", "s", "s", "e", "s", ")", ".">>,
      \* About address already in use errors: These occur when a port is occupied.
      <<"A", "b", "o", "u", "t", " ", "a", "d", "d", "r", "e", "s", "s",
        " ", "a", "l", "r", "e", "a", "d", "y", " ", "i", "n", " ", "u",
        "s", "e", " ", "e", "r", "r", "o", "r", "s", ":", " ", "T", "h",
        "e", "s", "e", " ", "o", "c", "c", "u", "r", " ", "w", "h", "e",
        "n", " ", "a", " ", "p", "o", "r", "t", " ", "i", "s", " ", "o",
        "c", "c", "u", "p", "i", "e", "d", ".">>,
      \* Tip: To prevent 'address already in use' errors, use SO_REUSEADDR.
      <<"T", "i", "p", ":", " ", "T", "o", " ", "p", "r", "e", "v", "e",
        "n", "t", " ", "'", "a", "d", "d", "r", "e", "s", "s", " ", "a",
        "l", "r", "e", "a", "d", "y", " ", "i", "n", " ", "u", "s", "e",
        "'", " ", "e", "r", "r", "o", "r", "s", ",", " ", "u", "s", "e",
        " ", "S", "O", "_", "R", "E", "U", "S", "E", "A", "D", "D", "R",
        ".">>,
      \* If you see 'address already in use', restart the service.
      <<"I", "f", " ", "y", "o", "u", " ", "s", "e", "e", " ", "'", "a",
        "d", "d", "r", "e", "s", "s", " ", "a", "l", "r", "e", "a", "d",
        "y", " ", "i", "n", " ", "u", "s", "e", "'", ",", " ", "r", "e",
        "s", "t", "a", "r", "t", " ", "t", "h", "e", " ", "s", "e", "r",
        "v", "i", "c", "e", ".">>
    }

\* Engine.Analyze of the default table on arg: the rules that match, in
\* table order, as the test's loop over DefaultRules() meets them
CallMatchDefault == Return("MatchDefault", EngineAnalyze(arg))

\* config.Load: the provider read from AI_PROVIDER; every value but
\* "gemini" (the unset variable included) becomes "openai"
LoadProvider(env) == IF env = "gemini" THEN "gemini" ELSE "openai"

\* main: the client built at startup and injected into the Analyzer
SelectClient(mockMode, provider) == IF mockMode THEN "mock" ELSE "openai"

\* the settings of AI_MOCK_MODE and AI_PROVIDER at startup
StartupInputs ==
    { [mock |-> mk, provider |-> p] :
        mk \in BOOLEAN, p \in {"", "openai", "gemini", "claude"} }

\* config.Load followed by main's construction of the client
CallStartup ==
    Return("Startup",
           [provider |-> LoadProvider(arg.provider),
            client |-> SelectClient(arg.mock, LoadProvider(arg.provider))])

\* the statuses other than 200 a service answers with: the ones the
\* clients name, their neighbours, and others of every class
Statuses ==
    {201, 204, 302, 399, 400, 401, 402, 403, 404, 408, 418, 428, 429, 430,
     499, 500, 501, 502, 503, 504, 599}

\* both clients' executeRequest on a response with status arg whose body
\* was read
CallClassify ==
    Return("Classify",
           [openai |-> OpenAIExecuteRequest(HttpStatus(arg), "active", FALSE),
            gemini |-> GeminiExecuteRequest(HttpStatus(arg), "active", FALSE)])

\* the pieces the logs handed to the default sanitizer are made of: keys,
\* values, tokens, an address, an e-mail address, the redaction marker
\* (whole and cut) as a sanitized log carries it, and filler
SecretPieces ==
    { <<"p", "a", "s", "s", "w", "o", "r", "d", "=">>,
      <<"s", "e", "c", "r", "e", "t", "1", "2", "3">>,
      <<"[", "R", "E", "D", "A", "C", "T", "E", "D", "]">>,
      <<"[", "R", "E", "D", "A">>,
      <<" ">>,
      <<"B", "e", "a", "r", "e", "r", " ">>,
      <<"a", "b", "c", ".", "d", "e", "f", ".", "g", "h", "i", "j",
      "k", "l">>,
      <<"1", "0", ".", "0", ".", "0", ".", "1", ":", "5", "4", "3",
      "2">>,
      <<"x">>,
      <<"u", "s", "e", "r", "@", "e", "x", "a", "m", "p", "l", "e",
      ".", "c", "o", "m">>,
      <<"A", "u", "t", "h", "o", "r", "i", "z", "a", "t", "i", "o",
      "n", ":", " ">> }

RECURSIVE PieceLogs(_)
\* the logs made of at most n pieces
PieceLogs(n) ==
    IF n = 0 THEN {<<>>}
    ELSE PieceLogs(n - 1)
         \cup {l \o p : l \in PieceLogs(n - 1), p \in SecretPieces}

\* a ceiling that cuts the longer logs inside a secret
TightSize == 20

\* Sanitize of a sanitizer built by sanitizer.New
CallSanitizeDefault == Return("SanitizeDefault", Sanitize(arg))

\* bodies of JSON strings: empty, a word, and words with braces in them
JsonTexts == {<<>>, <<"a">>, <<"{">>, <<"}">>, <<"a", "}", "k">>}

Str(t) == <<Quote>> \o t \o <<Quote>>

\* the values of a member: a string, or the empty object
JsonValues == {Str(t) : t \in JsonTexts} \cup {<<"{", "}">>}

\* one member "tag": value of an object
JsonMembers ==
    {Str(k) \o <<":", " ">> \o v : k \in {error_type, root_cause}, v \in JsonValues}

RECURSIVE MemberLists(_)
\* the comma-separated lists of 1..n members
MemberLists(n) ==
    IF n = 1 THEN JsonMembers
    ELSE MemberLists(n - 1)
         \cup {l \o <<",">> \o m : l \in MemberLists(n - 1), m \in JsonMembers}

\* the valid JSON objects a reply carries
JsonObjects == {<<"{">> \o l \o <<"}">> : l \in MemberLists(MaxMembers)}

\* what a reply puts before and after the object: nothing, prose, a code
\* fence (written ~~~)
Prefixes == {<<>>, <<"a", "k", ":", "\n">>, <<"~", "~", "~", "\n">>}
Suffixes == {<<>>, <<" ", "a", "k">>, <<"\n", "~", "~", "~">>}

\* reply texts without an object that parses as the result
BrokenTexts ==
    {<<>>, <<"a", "k", " ", "a", "k">>, <<"{", "a", "k", ":", " ", "a", "k", "}">>, <<"{">>, <<"}", "{">>, <<"{", "\"", "e", "r", "r", "o", "r", "_", "t", "y", "p", "e", "\"", ":", " ", "\"", "a", "\"">>, <<"\"", "a", "k", "\"">>, <<"{", "\"", "k", "\"", ":", " ", "a", "k", "}">>}

\* the reply texts handed to parseAnalysisResult, as (pre, obj, post)
ParseInputs ==
    {[pre |-> a, obj |-> o, post |-> b] :
        a \in Prefixes, o \in JsonObjects \cup BrokenTexts, b \in Suffixes}

CallParseContent ==
    Return("parseContent", parseContent(arg.pre \o arg.obj \o arg.post))

InitFn ==
    /\ NoRequest
    /\ pc = "call"
    /\ fnRet = Nil
    /\ table \in {"test", "default"}
    /\ ruleTable = NewRules(table)
    /\ patternList = NewPatterns(table)
    /\ \/ fn = "Validate" /\ maxSize = MaxSize /\ arg \in ValidateInputs
       \/ fn = "GetBestMatch" /\ maxSize = MaxSize /\ arg \in GetBestMatchInputs
       \/ fn = "EngineAnalyze" /\ maxSize = MaxSize /\ arg \in Logs
       \/ fn = "AnalyzeBest" /\ maxSize = MaxSize /\ arg \in AnalyzeBestInputs
       \/ fn = "maskValue" /\ maxSize = MaxSize /\ arg \in MaskInputs
       \/ fn = "Classify" /\ maxSize = MaxSize /\ arg \in Statuses
       \/ fn = "Startup" /\ maxSize = MaxSize /\ arg \in StartupInputs
       \/ /\ fn = "MatchDefault" /\ maxSize = DefaultMaxLogSize
          /\ arg \in PortErrorLogs \cup PortHintLogs
       \/ fn = "Predicates" /\ maxSize = MaxSize /\ arg \in BlankLogs
       \/ fn = "parseContent" /\ maxSize = MaxSize /\ arg \in ParseInputs
       \/ /\ fn = "SanitizeWithStats"
          /\ maxSize \in {MaxSize, WideSize}
          /\ arg \in SanLogs
       \/ /\ fn = "SanitizeTwice"
          /\ table = "test"
          /\ maxSize \in {MaxSize, WideSize}
          /\ arg \in {Sanitize(y) : y \in SanLogs}
       \/ /\ fn = "SanitizeDefault"
          /\ maxSize \in {TightSize, DefaultMaxLogSize}
          /\ arg \in PieceLogs(MaxPieces)
    \* sanitizer.New for the last call, the small table and pattern list
    \* for the others
    /\ table = (IF fn \in {"SanitizeDefault", "MatchDefault"}
                THEN "default" ELSE "test")

NextFn ==
    \/ CallValidate
    \/ CallGetBestMatch
    \/ CallEngineAnalyze
    \/ CallAnalyzeBest
    \/ CallMaskValue
    \/ CallClassify
    \/ CallStartup
    \/ CallMatchDefault
    \/ CallPredicates
    \/ CallParseContent
    \/ CallSanitizeWithStats
    \/ CallSanitizeTwice
    \/ CallSanitizeDefault

SpecFn == InitFn /\ [][NextFn]_vars

\* ------------------------------------------------- concurrent requests
\* Several requests processed at once through the one Analyzer and the one
\* client, one worker (goroutine) per request.  A worker's variables are
\* the locals of Analyzer.Analyze and of the client's Analyze for its
\* request, and the request's own context; the Analyzer's and the client's
\* fields, the rule table and the pattern list are shared by all workers.
NumWorkers == 2         \* requests in progress at once

ConcRetries == 1        \* AIConfig.MaxRetries of the shared client

\* a log that goes to the reasoning client (r_low stays below the
\* threshold) and a log the rules answer
ConcLogs == {<<"o">>, <<"k">>}

\* what the service does with an attempt of a concurrent request
ConcReplies ==
    { Reply("transport_error", 0, FALSE, FALSE, FALSE, 0, FALSE, 0, "", NoObj),
      HttpStatus(400), HttpStatus(503), Ok200("object", ValidResult) }

\* what happened to a worker: its start, a reply to an attempt (with the
\* context's state, whether the transport rewound the request body and
\* whether the body is consumed afterwards), the timer of a wait firing,
\* the wait ending on a done context, the caller's cancellation
Event(kind, r, c, rewound, consumed) ==
    [kind |-> kind, reply |-> r, ctx |-> c, rewound |-> rewound,
     consumed |-> consumed]

Plain(kind) == Event(kind, Nil, "", FALSE, FALSE)

\* a worker's variables when its request arrives
NewWorker(l) ==
    [log |-> l, ctx |-> "active", pc |-> "received", sanitizedLog |-> <<>>,
     attempt |-> 0, backoff |-> 0, result |-> Nil, lastErr |-> Nil,
     bodyConsumed |-> FALSE, clientRet |-> Nil, response |-> Nil,
     attempts |-> 0, waits |-> <<>>, events |-> <<>>]

\* an Engine.Analyze that moves the rules that matched to the front
RulesAfterAnalyze_MatchedFirst(rs, l) ==
    LET Hit(r) == Match(r, l)
        Miss(r) == ~Match(r, l)
    IN  SelectSeq(rs, Hit) \o SelectSeq(rs, Miss)

\* the rule table as Engine.Analyze(l) leaves it: the loop ranges over
\* e.rules, Rule.Match reads the rule, and the matches are appended to a
\* slice of the call's own
RulesAfterAnalyze(rs, l) == rs

\* the pattern list as maskSecrets and SanitizeWithStats leave it: both
\* range over s.patterns and call the read-only methods of each regexp
PatternsAfterSanitize(ps, l) == ps

\* a loop variable kept in the client and shared by all requests
AttemptOf_Shared(ws, i) == ws[1].attempt

\* the loop variable attempt that worker i reads: its own
AttemptOf(ws, i) == ws[i].attempt

\* aiClient.Analyze returned ret to worker w: Analyzer.Analyze finishes
Finished(w, ret) ==
    LET out == AfterAI(ret.result, ret.err, enableRules, w.sanitizedLog,
                       threshold)
    IN  [w EXCEPT !.clientRet = ret, !.response = out.result, !.pc = "done"]

\* Analyzer.Analyze of worker w from its entry to the first suspension point
Started(w) ==
    LET e == [w EXCEPT !.events = Append(@, Plain("start"))]
    IN  IF IsEmpty(w.log)
        THEN [e EXCEPT !.response = EmptyLogResponse.result, !.pc = "done"]
        ELSE LET sw == SanitizeWithStats(w.log)
                 matches == EngineAnalyze(sw.text)
                 s == [e EXCEPT !.sanitizedLog = sw.text]
             IN  IF enableRules /\ ShouldUseRuleResult(matches, threshold)
                 THEN [s EXCEPT !.response = RuleResponse(matches, threshold).result,
                                !.pc = "done"]
                 ELSE IF client = "mock" THEN Finished(s, MockAnalyze)
                 ELSE IF LoopContinues(0, maxRetries)
                 THEN [s EXCEPT !.pc = "inflight"]
                 ELSE [s EXCEPT !.pc = "panic"]

\* httpClient.Do fails for worker w on reply r
DoFails(w, r, rewound) ==
    \/ r.kind = "transport_error"
    \/ w.ctx # "active"
    \/ client = "openai" /\ w.bodyConsumed /\ ~rewound

\* one attempt of worker i returns and its loop runs to the next
\* suspension point or to the client's return
Attempted(ws, i, r, rewound, consumed) ==
    LET w == ws[i]
        out == ExecuteRequest(client, r, w.ctx, DoFails(w, r, rewound))
        a == [w EXCEPT !.attempts = @ + 1, !.result = out.result,
                       !.lastErr = out.err, !.bodyConsumed = consumed,
                       !.events = Append(@, Event("reply", r, w.ctx, rewound,
                                                  consumed))]
        next == AttemptOf(ws, i) + 1
    IN  IF out.err = Nil \/ ~ShouldRetry(out.err)
        THEN Finished(a, AfterLoop(out.result, out.err))
        ELSE IF LoopContinues(next, maxRetries)
        THEN [a EXCEPT !.attempt = next, !.pc = "backoff",
                       !.backoff = BackoffOf(next)]
        ELSE Finished([a EXCEPT !.attempt = next],
                      AfterLoop(out.result, out.err))

\* the caller of worker w's request cancels its context
Cancelled(w) ==
    [w EXCEPT !.ctx = "canceled", !.events = Append(@, Plain("cancel"))]

\* the timer of worker w's wait fires
TimerFired(w) ==
    [w EXCEPT !.waits = Append(@, w.backoff), !.backoff = 0,
              !.pc = "inflight", !.events = Append(@, Plain("timer"))]

\* worker w's wait ends on its done context
WaitCancelled(w) ==
    Finished([w EXCEPT !.backoff = 0,
                       !.events = Append(@, Plain("ctx_done"))],
             Ret(Nil, CancelledError(w.ctx)))

\* the step by which worker i became new calls Engine.Analyze on text l
CallsEngine(old, new) ==
    /\ enableRules
    /\ new.sanitizedLog # <<>>
    /\ \/ old.pc = "received"
       \/ new.pc = "done" /\ new.clientRet # Nil /\ new.clientRet.err # Nil

\* worker i takes the step that makes its variables new
WorkerStep(i, new) ==
    /\ workers' = [workers EXCEPT ![i] = new]
    /\ ruleTable' = (IF CallsEngine(workers[i], new)
                     THEN RulesAfterAnalyze(ruleTable, new.sanitizedLog)
                     ELSE ruleTable)
    /\ patternList' = (IF workers[i].pc = "received" /\ ~IsEmpty(new.log)
                       THEN PatternsAfterSanitize(patternList, new.log)
                       ELSE patternList)
    /\ UNCHANGED <<requestVars, pc, table, maxSize, fnVars>>

WorkerStart(i) ==
    /\ workers[i].pc = "received"
    /\ WorkerStep(i, Started(workers[i]))

\* the caller of request i cancels its context
WorkerCancel(i) ==
    /\ workers[i].pc \in {"received", "inflight", "backoff"}
    /\ workers[i].ctx = "active"
    /\ WorkerStep(i, Cancelled(workers[i]))

WorkerAttempt(i, r, rewound, consumed) ==
    LET w == workers[i]
    IN  /\ w.pc = "inflight"
        /\ (w.ctx # "active" => r.kind = "transport_error")
        \* the transport rewinds only a body that was read before
        /\ (rewound => client = "openai" /\ w.bodyConsumed)
        /\ IF client = "openai"
           THEN (w.bodyConsumed \/ ~DoFails(w, r, rewound)) => consumed
           ELSE consumed = w.bodyConsumed
        /\ WorkerStep(i, Attempted(workers, i, r, rewound, consumed))

WorkerBackoffElapsed(i) ==
    /\ workers[i].pc = "backoff"
    /\ SelectBackoff(workers[i].ctx) = "timer"
    /\ WorkerStep(i, TimerFired(workers[i]))

WorkerBackoffCancelled(i) ==
    /\ workers[i].pc = "backoff"
    /\ SelectBackoff(workers[i].ctx) = "ctx_done"
    /\ WorkerStep(i, WaitCancelled(workers[i]))

InitConc ==
    /\ log = <<>>
    /\ enableRules \in BOOLEAN
    /\ threshold = 80
    /\ client \in {"openai", "gemini", "mock"}
    /\ maxRetries = ConcRetries
    /\ table = "test"
    /\ maxSize = MaxSize
    /\ ruleTable = NewRules(table)
    /\ patternList = NewPatterns(table)
    /\ ctx = "active" /\ pc = "workers"
    /\ sanitizedLog = <<>> /\ stats = NoStats
    /\ attempt = 0 /\ backoff = 0 /\ result = Nil /\ lastErr = Nil
    /\ bodyConsumed = FALSE /\ clientRet = Nil /\ response = Nil
    /\ retErr = Nil /\ sanitizeCalls = 0 /\ ruleEvals = 0 /\ aiCalls = 0
    /\ attempts = 0 /\ waits = <<>> /\ svcLog = <<>> /\ lastSvc = Nil
    /\ cancelledAt = "" /\ attemptsAtCancel = 0
    /\ fn = "" /\ arg = Nil /\ fnRet = Nil
    /\ workers \in [1..NumWorkers -> {NewWorker(l) : l \in ConcLogs}]

NextConc ==
    \E i \in 1..NumWorkers :
        \/ WorkerStart(i)
        \/ WorkerCancel(i)
        \/ \E r \in ConcReplies, rewound \in BOOLEAN, consumed \in BOOLEAN :
              WorkerAttempt(i, r, rewound, consumed)
        \/ WorkerBackoffElapsed(i)
        \/ WorkerBackoffCancelled(i)

SpecConc == InitConc /\ [][NextConc]_vars

\* ================================================================ claims
Network == client \in {"openai", "gemini"}

\* indices of the rules whose triggers occur in text l
MatchingRules(l) ==
    {i \in 1..Len(rules) :
        \/ \E kw \in rules[i].Keywords : Contains(ToLower(l), ToLower(kw))
        \/ \E p \in rules[i].Patterns : \E j \in 1..Len(l) : l[j] \in p.cls}

\* the first rule of highest confidence among the rules S
FirstHighest(S) ==
    CHOOSE i \in S :
        \A j \in S : /\ rules[j].Confidence <= rules[i].Confidence
                     /\ (j < i => rules[j].Confidence < rules[i].Confidence)

\* the rules matching l whose confidence reaches the threshold
Qualifying(l) == {i \in MatchingRules(l) : rules[i].Confidence >= threshold}

AllSpaces(l) == \A i \in 1..Len(l) : l[i] = " "

\* the reasoning client returned an error to the Analyzer
ClientFailed == clientRet # Nil /\ clientRet.err # Nil

\* the service answered every attempt with a retryable failure, the
\* retries are exhausted and the context was never cancelled
AlwaysRetryable ==
    /\ Network /\ ctx = "active" /\ pc = "done" /\ svcLog # <<>>
    /\ \A i \in 1..Len(svcLog) : svcLog[i] = "retryable"

\* C1: with rules enabled, when the reasoning client fails on every attempt
\* with a retryable error and at least one rule matches the sanitized log
\* at any confidence (also below the threshold), the Analyzer answers
\* success=true with the highest-confidence matching rule's result and
\* source rules_fallback:<rule id>.
C1_FallbackAnyConfidence ==
    (enableRules /\ AlwaysRetryable /\ ClientFailed
        /\ MatchingRules(sanitizedLog) # {})
    => LET b == FirstHighest(MatchingRules(sanitizedLog))
       IN  /\ response # Nil
           /\ response.Success
           /\ response.Result = rules[b].Result
           /\ response.Source = "rules_fallback:" \o rules[b].ID

\* C2: with rules enabled, when a rule matching the sanitized log has
\* confidence >= threshold, the request is resolved with source rules:<id>
\* and the result of the first highest-confidence qualifying rule, and the
\* reasoning client is never invoked.
C2_RuleFastPath ==
    (pc # "received" /\ enableRules /\ ~AllSpaces(log)
        /\ Qualifying(Sanitize(log)) # {})
    => LET b == FirstHighest(Qualifying(Sanitize(log)))
       IN  /\ pc = "done"
           /\ response # Nil
           /\ response.Success
           /\ response.Source = "rules:" \o rules[b].ID
           /\ response.Result = rules[b].Result
           /\ response.Error = ""
           /\ aiCalls = 0
           /\ attempts = 0
           /\ clientRet = Nil

\* a request resolved by the fast path although an earlier rule of lower
\* confidence and a later rule of the same confidence match as well
C2_Witness ==
    /\ pc = "done" /\ response # Nil
    /\ response.Source = "rules:r_kw"
    /\ MatchingRules(sanitizedLog) = {1, 2, 3}
    /\ aiCalls = 0

\* C3: whatever the log and whatever the reasoning client returns (success,
\* retryable failure, fatal failure, cancellation), Analyzer.Analyze returns
\* a non-nil response and a nil error; the client's error is never its own
\* error return.
C3_AlwaysEnvelope ==
    /\ (pc = "done" => response # Nil /\ retErr = Nil)
    /\ (clientRet # Nil => pc = "done" /\ response # Nil /\ retErr = Nil)
    /\ retErr = Nil

\* the client gave up with a cancellation error and the Analyzer still
\* returned an envelope
C3_Witness ==
    /\ pc = "done" /\ ClientFailed
    /\ clientRet.err.Op = "context_cancelled"
    /\ response # Nil /\ ~response.Success /\ retErr = Nil

\* C4: an empty or whitespace-only log ends in Failed: success=false, the
\* empty-log error, and neither the sanitizer nor the rule engine nor the
\* reasoning client was called.
C4_EmptyLogRejected ==
    (pc # "received" /\ AllSpaces(log))
    => /\ pc = "done"
       /\ response = [Success |-> FALSE, Result |-> Nil,
                      Error |-> "log content is empty", Source |-> ""]
       /\ sanitizeCalls = 0 /\ ruleEvals = 0 /\ aiCalls = 0 /\ attempts = 0
       /\ clientRet = Nil

\* a whitespace-only log was rejected
C4_Witness ==
    /\ pc = "done" /\ Len(log) = 2 /\ AllSpaces(log)
    /\ response # Nil /\ ~response.Success

\* C5: when the reasoning client fails and no rule matches the sanitized
\* log, the response is success=false with a non-empty error message that
\* carries the client's error, no result and no source.
C5_FailureSurfaced ==
    (pc = "done" /\ ClientFailed /\ MatchingRules(sanitizedLog) = {})
    => /\ response # Nil
       /\ ~response.Success
       /\ response.Error # ""
       /\ response.Error = clientRet.err.Op \o ": " \o clientRet.err.Err
       /\ response.Result = Nil
       /\ response.Source = ""

\* rules are enabled, none matches, and the rate-limit error of the last
\* attempt is the message of the response
C5_Witness ==
    /\ pc = "done" /\ ClientFailed /\ enableRules
    /\ MatchingRules(sanitizedLog) = {}
    /\ response # Nil
    /\ response.Error = "rate_limit: rate limit exceeded"

\* the service's replies to the attempts so far: retryable failures only,
\* then a success on the last one
FailsThenSucceeds ==
    /\ Network /\ svcLog # <<>> /\ ctx = "active"
    /\ svcLog[Len(svcLog)] = "ok"
    /\ \A i \in 1..(Len(svcLog) - 1) : svcLog[i] = "retryable"
    /\ Len(svcLog) - 1 <= maxRetries

StrictlyIncreasing(w) == \A i \in 1..(Len(w) - 1) : w[i] < w[i + 1]

\* C6: when the service fails with a retryable error on attempts 1..k and
\* succeeds on attempt k+1 (k <= MaxRetries), the client returns the
\* successful result after exactly k retries, and the backoff waits before
\* the retries are strictly increasing.
C6_RetryUntilSuccess ==
    FailsThenSucceeds
    => /\ pc = "done"
       /\ clientRet # Nil
       /\ clientRet.err = Nil
       /\ clientRet.result = lastSvc.obj
       /\ attempts = Len(svcLog)
       /\ Len(waits) = Len(svcLog) - 1
       /\ StrictlyIncreasing(waits)

\* C6 for the client that builds a fresh request on every attempt
C6_GeminiRetryUntilSuccess == client = "gemini" => C6_RetryUntilSuccess

\* C7: when every attempt fails with a retryable error, the client makes
\* exactly MaxRetries+1 request attempts, never more, and returns the error
\* of the last attempt.
C7_ExhaustedRetries ==
    /\ (Network /\ maxRetries >= 0 => attempts <= maxRetries + 1)
    /\ (Network /\ pc = "done" /\ ctx = "active" /\ ClientFailed
            /\ lastErr # Nil /\ lastErr.Retryable)
       => /\ attempts = maxRetries + 1
          /\ Len(waits) = maxRetries
          /\ clientRet.err = lastErr
          /\ clientRet.result = Nil

\* three attempts were made with MaxRetries = 2, and the rate-limit error
\* of the third came back
C7_Witness ==
    /\ Network /\ pc = "done" /\ ctx = "active" /\ maxRetries = 2
    /\ attempts = 3 /\ ClientFailed
    /\ clientRet.err.Op = "rate_limit"
    /\ lastSvc.status = 429

\* the schema of AnalysisResult
SchemaOK(o) ==
    /\ o.ErrorType # ""
    /\ o.Severity \in {"Low", "Medium", "High"}
    /\ o.RootCause # ""
    /\ Len(o.SuggestedActions) >= 1
    /\ \A i \in 1..Len(o.SuggestedActions) : o.SuggestedActions[i] # ""
    /\ \A i \in 1..Len(o.PreventionTips) : o.PreventionTips[i] # ""

\* the replies the fatal conditions name: malformed request, authentication
\* failure and other 4xx except rate-limit; an unparsable body; an API
\* error; empty or blocked output; a reply without a parsable object; an
\* object violating the schema
FatalReply(cl, r) ==
    /\ r.kind = "http"
    /\ \/ (r.status >= 400 /\ r.status < 500 /\ r.status # 429)
       \/ /\ r.status = 200
          /\ \/ ~r.parses
             \/ r.apiError
             \/ r.choices = 0
             \/ (cl = "gemini" /\ (r.blocked \/ r.safety \/ r.parts = 0))
             \/ r.content \in {"", "prose", "mistyped"}
             \/ (r.content = "object" /\ ~SchemaOK(r.obj))

\* C8: a fatal failure on any attempt ends the retry loop at once: the
\* client returns that error, with no backoff wait and no further attempt.
C8_FatalStops ==
    [][ /\ (attempts' = attempts + 1 /\ lastErr' # Nil /\ ~lastErr'.Retryable)
           => /\ pc' = "done"
              /\ clientRet' # Nil
              /\ clientRet'.err = lastErr'
              /\ clientRet'.result = Nil
              /\ backoff' = 0
              /\ waits' = waits
        /\ (attempts' = attempts + 1 /\ ctx = "active"
                /\ (client = "gemini" \/ ~bodyConsumed)
                /\ FatalReply(client, lastSvc'))
           => (lastErr' # Nil /\ ~lastErr'.Retryable)
        /\ (pc = "done" => attempts' = attempts /\ waits' = waits)
      ]_vars

\* the second attempt of three permitted ones failed with an authentication
\* error, and the client returned it
C8_Witness ==
    /\ Network /\ pc = "done" /\ maxRetries = 2 /\ attempts = 2
    /\ lastSvc.status = 401
    /\ ClientFailed /\ ~clientRet.err.Retryable
    /\ waits = <<1>>

\* C9: when the context is cancelled or its deadline expires during a
\* backoff wait, the client aborts the wait, returns a cancellation error
\* and makes no further request attempt.
C9_CancelDuringBackoff ==
    cancelledAt = "backoff"
    => /\ pc \in {"backoff", "done"}
       /\ attempts = attemptsAtCancel
       /\ Len(waits) = attemptsAtCancel - 1
       /\ (pc = "done"
           => /\ clientRet # Nil
              /\ clientRet.result = Nil
              /\ clientRet.err =
                   [Op |-> "context_cancelled",
                    Err |-> IF ctx = "canceled" THEN "context canceled"
                            ELSE "context deadline exceeded",
                    Retryable |-> FALSE])

\* the deadline expired during the second backoff wait and the client
\* returned the cancellation error
C9_Witness ==
    /\ cancelledAt = "backoff" /\ pc = "done" /\ ctx = "deadline"
    /\ attempts = 2 /\ waits = <<1>>
    /\ ClientFailed /\ clientRet.err.Op = "context_cancelled"

\* C10: when the context is cancelled or its deadline expires while a
\* request attempt is in flight, the client returns a cancellation error,
\* whatever the attempt number, and starts no further attempt.
C10_CancelInFlight ==
    (cancelledAt = "inflight" /\ pc = "done")
    => /\ attempts = attemptsAtCancel + 1
       /\ clientRet # Nil
       /\ clientRet.result = Nil
       /\ clientRet.err # Nil
       /\ clientRet.err.Op = "context_cancelled"
       /\ ~clientRet.err.Retryable

\* no further attempt follows an attempt the context ended
C10_NoFurtherAttempt ==
    cancelledAt = "inflight" => attempts <= attemptsAtCancel + 1

\* C11: every error the network-backed client's Analyze returns to its
\* caller is final: domain.IsRetryable is false for it, whether the loop
\* ended by a fatal error, by exhausted retries or by cancellation.
C11_ErrorsFinal ==
    (Network /\ pc = "done" /\ ClientFailed) => ~IsRetryable(clientRet.err)

\* reply r reaches client cl's parseAnalysisResult as a JSON object that
\* unmarshals into AnalysisResult
DeliversObject(cl, r) ==
    /\ r.kind = "http" /\ r.status = 200 /\ r.parses /\ ~r.apiError
    /\ r.choices > 0 /\ r.content = "object"
    /\ (cl = "gemini" => ~r.blocked /\ ~r.safety /\ r.parts > 0)

\* C12: a reply whose parsed object violates the schema is rejected as a
\* non-retryable failure: the attempt is not retried (no wait, no further
\* attempt), the Analyzer does not return it with source ai, and the
\* request ends in rule fallback or in a failure response.
C12_SchemaViolationFatal ==
    [][ (/\ attempts' = attempts + 1
         /\ ctx = "active"
         /\ (client = "gemini" \/ ~bodyConsumed)
         /\ DeliversObject(client, lastSvc')
         /\ ~SchemaOK(lastSvc'.obj))
        => /\ pc' = "done"
           /\ waits' = waits
           /\ lastErr' # Nil /\ ~IsRetryable(lastErr')
           /\ clientRet' = Ret(Nil, lastErr')
           /\ retErr' = Nil
           /\ response' # Nil
           /\ response'.Source # "ai"
           /\ response'.Result # lastSvc'.obj
           /\ \/ /\ ~response'.Success
                 /\ response'.Result = Nil
                 /\ response'.Error = ErrorString(lastErr')
              \/ /\ response'.Success
                 /\ enableRules
                 /\ \E i \in MatchingRules(sanitizedLog) :
                       /\ response'.Source = "rules_fallback:" \o rules[i].ID
                       /\ response'.Result = rules[i].Result
      ]_vars

\* after one retry the service sent an object with severity Critical; the
\* validator rejected it and the request ended in a failure response
C12_Witness ==
    /\ Network /\ pc = "done" /\ attempts = 2 /\ waits = <<1>>
    /\ lastSvc.content = "object" /\ lastSvc.obj.Severity = "Critical"
    /\ ClientFailed /\ clientRet.err.Op = "validate_severity"
    /\ ~response.Success

\* C14: DefaultValidator.Validate returns ok if and only if the result is
\* present, error_type is non-empty, severity is Low, Medium or High,
\* root_cause is non-empty, suggested_actions has at least one entry and no
\* empty entry, and prevention_tips has no empty entry (an empty
\* prevention_tips list is accepted).
C14_ValidateIffSchema ==
    Returned("Validate")
    => ((fnRet = Nil) <=> (arg # Nil /\ SchemaOK(arg)))

\* the validator accepted a result without prevention tips
C14_Witness ==
    /\ Returned("Validate") /\ fnRet = Nil
    /\ arg.PreventionTips = <<>> /\ Len(arg.SuggestedActions) = 2

Triggers(r, l) ==
    \/ \E kw \in r.Keywords : \E off \in 0..(Len(l) - Len(kw)) :
          \A j \in 1..Len(kw) : ToLowerChar(l[off + j]) = ToLowerChar(kw[j])
    \/ \E p \in r.Patterns : \E i \in 1..Len(l) : l[i] \in p.cls

Triggered(l) == {i \in 1..Len(rules) : Triggers(rules[i], l)}

RuleMatchOf(i) ==
    [RuleID |-> rules[i].ID, Confidence |-> rules[i].Confidence,
     Result |-> rules[i].Result]

\* C16: Engine.Analyze returns exactly the rules with a keyword occurring
\* as a case-insensitive substring or a matching regular expression, one
\* RuleMatch per such rule, in rule-table order, without stopping at the
\* first; for an input matching no rule it returns the empty list and
\* ShouldUseRuleResult is false.
C16_AnalyzeAllMatches ==
    Returned("EngineAnalyze")
    => LET T == Triggered(arg)
       IN  /\ Len(fnRet) = Cardinality(T)
           /\ \A i \in T :
                 fnRet[Cardinality({j \in T : j < i}) + 1] = RuleMatchOf(i)
           /\ T = {} => /\ fnRet = <<>>
                        /\ \A t \in {0, 40, 80, 100} :
                              ~ShouldUseRuleResult(fnRet, t)

\* a log on which all three rules of the table trigger
C16_Witness ==
    /\ Returned("EngineAnalyze") /\ Len(fnRet) = 3
    /\ fnRet[1].RuleID = "r_low" /\ fnRet[3].RuleID = "r_tie"

\* C17 as stated: for every input that triggers rule R, Engine.Analyze
\* includes R, and if R's confidence is >= the threshold then GetBestMatch
\* on that result returns R.
C17_MatchedRuleIsBest ==
    Returned("AnalyzeBest")
    => \A i \in Triggered(arg.log) :
          /\ \E k \in 1..Len(fnRet.matches) : fnRet.matches[k] = RuleMatchOf(i)
          /\ rules[i].Confidence >= arg.thr
             => (fnRet.best # Nil /\ fnRet.best = RuleMatchOf(i))

\* R is the first rule of highest confidence among those l triggers
FirstHighestTriggered(i, l) ==
    \A j \in Triggered(l) :
        /\ rules[j].Confidence <= rules[i].Confidence
        /\ (j < i => rules[j].Confidence < rules[i].Confidence)

\* C17, corrected: for every input that triggers rule R, Engine.Analyze
\* includes R; if R's confidence is >= the threshold then GetBestMatch
\* returns a match of at least R's confidence, and it returns R when R is
\* the first rule of highest confidence among the triggered ones.
C17_MatchedRuleIncluded ==
    Returned("AnalyzeBest")
    => \A i \in Triggered(arg.log) :
          /\ \E k \in 1..Len(fnRet.matches) : fnRet.matches[k] = RuleMatchOf(i)
          /\ rules[i].Confidence >= arg.thr
             => /\ fnRet.best # Nil
                /\ fnRet.best.Confidence >= rules[i].Confidence
                /\ FirstHighestTriggered(i, arg.log)
                   => fnRet.best = RuleMatchOf(i)

\* a log triggers r_low by its regular expression and r_kw by its keyword,
\* both clear the threshold, and r_kw is returned
C17_Witness ==
    /\ Returned("AnalyzeBest") /\ arg.thr = 40
    /\ Triggered(arg.log) = {1, 2}
    /\ fnRet.best # Nil /\ fnRet.best.RuleID = "r_kw"

\* C19: for every input longer than the size ceiling, the text returned by
\* SanitizeWithStats has length <= the ceiling and the stats report
\* truncated = true, also when the truncated text holds secrets that
\* masking rewrites.
C19_TruncatedWithinCeiling ==
    (Returned("SanitizeWithStats") /\ Len(arg) > maxSize)
    => /\ Len(fnRet.text) <= maxSize
       /\ fnRet.stats.Truncated

\* no sanitization pattern matches anywhere in x
NoSecret(x) ==
    \A k \in 1..Len(patterns) : \A i \in 1..Len(x) : x[i] \notin patterns[k].cls

\* C20: on a text x that Sanitize returned and that contains no secret
\* pattern, Sanitize is idempotent: Sanitize(Sanitize(x)) = Sanitize(x).
C20_Idempotent ==
    (Returned("SanitizeTwice") /\ NoSecret(arg)) => fnRet.twice = fnRet.once

\* C13: in every response with success=true produced by the shipped
\* strategies (default rule table, OpenAI-compatible client, Gemini client,
\* mock client) the result satisfies the AnalysisResult schema; so does the
\* pre-computed result of every rule of the table.
C13_SuccessSatisfiesSchema ==
    /\ \A i \in 1..Len(rules) : SchemaOK(rules[i].Result)
    /\ (response # Nil /\ response.Success)
       => (response.Result # Nil /\ SchemaOK(response.Result))

\* with the default table, the Gemini client's second attempt brought a
\* result without prevention tips, returned with source ai
C13_Witness ==
    /\ table = "default" /\ client = "gemini" /\ attempts = 2
    /\ response # Nil /\ response.Success /\ response.Source = "ai"
    /\ response.Result.PreventionTips = <<>>

\* C18: with rules enabled and threshold 0.8, the input "ERROR: docker build
\* failed: permission denied" is resolved by rule docker_build_permission:
\* success=true, source rules:docker_build_permission, severity High, and
\* the reasoning client is not called.
C18_DockerScenario ==
    (/\ table = "default" /\ log = dockerBuildLog
     /\ enableRules /\ threshold = 80 /\ pc # "received")
    => /\ pc = "done"
       /\ retErr = Nil
       /\ response # Nil
       /\ response.Success
       /\ response.Source = "rules:docker_build_permission"
       /\ response.Result = dockerBuildPermissionDenied.Result
       /\ response.Result.Severity = "High"
       /\ response.Error = ""
       /\ aiCalls = 0 /\ attempts = 0 /\ clientRet = Nil

\* the docker scenario answered while the OpenAI-compatible client is the
\* injected one
C18_Witness ==
    /\ table = "default" /\ log = dockerBuildLog /\ client = "openai"
    /\ enableRules /\ threshold = 80 /\ pc = "done"
    /\ response.Source = "rules:docker_build_permission"
    /\ sanitizedLog = dockerBuildLog

\* the first ':' or '=' of text m stands at position i
FirstSepAt(m, i) ==
    /\ m[i] \in {":", "="}
    /\ \A j \in 1..(i - 1) : m[j] \notin {":", "="}

HasSep(m) == \E i \in 1..Len(m) : m[i] \in {":", "="}

\* C21: maskValue follows the stated policy for every matched string: at
\* most 8 characters -> the redaction marker; otherwise, with a ':' or '='
\* in it -> its prefix up to and including the first separator, then the
\* marker; otherwise, longer than 10 characters -> its first 4 and last 4
\* characters around "****"; every remaining match -> the marker.
C21_MaskPolicy ==
    Returned("maskValue")
    => LET n == Len(arg)
       IN  /\ n <= 8 => fnRet = Redacted
           /\ (n > 8 /\ HasSep(arg))
              => \E i \in 1..n :
                    /\ FirstSepAt(arg, i)
                    /\ Len(fnRet) = i + Len(Redacted)
                    /\ \A j \in 1..i : fnRet[j] = arg[j]
                    /\ \A j \in 1..Len(Redacted) : fnRet[i + j] = Redacted[j]
           /\ (n > 10 /\ ~HasSep(arg))
              => /\ Len(fnRet) = 12
                 /\ \A j \in 1..4 : /\ fnRet[j] = arg[j]
                                    /\ fnRet[4 + j] = "*"
                                    /\ fnRet[8 + j] = arg[n - 4 + j]
           /\ (n \in {9, 10} /\ ~HasSep(arg)) => fnRet = Redacted

\* a 12-character match with '=' at positions 5 and 9 was cut after the
\* first of them
C21_Witness ==
    /\ Returned("maskValue")
    /\ Len(arg) = 12 /\ FirstSepAt(arg, 5) /\ arg[9] = "="
    /\ Len(fnRet) = 15

RECURSIVE ReFindAll(_, _, _)
\* the substrings of s from position i on that regexp re matches, as
\* FindAllString and ReplaceAllStringFunc find them
ReFindAll(s, i, re) ==
    LET starts == {q \in i..Len(s) : MatchEnds(re, s, q) \ {q} # {}}
    IN  IF ReFrom(re, 1, s, i..Len(s)) = {} \/ starts = {}
        THEN {}
        ELSE LET j == Min(starts)
                 e == Max(MatchEnds(re, s, j))
             IN  {SubSeq(s, j + 1, e)} \cup ReFindAll(s, e, re)

RECURSIVE StepText(_, _)
\* text t after the first k patterns of the list have been applied
StepText(t, k) ==
    IF k = 0 THEN t
    ELSE LET before == StepText(t, k - 1)
         IN  IF Len(before) = 0 THEN before
             ELSE ReReplaceFrom(before, 0, patterns[k].re)

\* the trimmed, size-limited input
Limited(l) == Truncate(TrimSpace(l))

\* the text after m's first separator is the redaction marker or a
\* beginning of it: m has the form maskValue gives a match with a separator
AlreadyMasked(m) ==
    \E i \in 1..Len(m) :
        /\ FirstSepAt(m, i)
        /\ Len(m) - i <= Len(Redacted)
        /\ \A j \in 1..(Len(m) - i) : m[i + j] = Redacted[j]

\* C22 as stated: for every substring m that a pattern matches in the
\* trimmed, size-limited input, the masked replacement neither equals nor
\* contains m and the output of Sanitize does not contain m.
C22_SecretNotInOutput ==
    Returned("SanitizeDefault")
    => \A k \in 1..Len(patterns) :
          \A m \in ReFindAll(Limited(arg), 0, patterns[k].re) :
              /\ ~Contains(maskValue(m), m)
              /\ ~Contains(fnRet, m)

\* C22, corrected: for every substring m that a pattern matches when
\* maskSecrets applies it, and that is not already in masked form, the
\* replacement neither equals nor contains m, and the patterns applied
\* later do not restore m: the output contains m only if the text held m
\* right after that pattern's replacements.  The output is the text after
\* the last pattern.
C22_ReplacementDestroys ==
    Returned("SanitizeDefault")
    => /\ fnRet = StepText(Limited(arg), Len(patterns))
       /\ \A k \in 1..Len(patterns) :
            \A m \in ReFindAll(StepText(Limited(arg), k - 1), 0, patterns[k].re) :
                ~AlreadyMasked(m)
                => /\ ~Contains(maskValue(m), m)
                   /\ Contains(fnRet, m)
                      => Contains(StepText(Limited(arg), k), m)

\* the bearer pattern matched the beginning of an e-mail address, and the
\* e-mail pattern then matched what that replacement left of the address
C22_Witness ==
    /\ Returned("SanitizeDefault")
    /\ ReFindAll(StepText(Limited(arg), 3), 0, patterns[4].re) # {}
    /\ \E m \in ReFindAll(StepText(Limited(arg), 22), 0, patterns[23].re) :
          ~AlreadyMasked(m) /\ ~Contains(fnRet, m)
    /\ fnRet # Limited(arg)

\* text t holds no brace
NoBrace(t) == \A i \in 1..Len(t) : t[i] \notin {"{", "}"}

\* some part of text c is a JSON object that unmarshals into the result
SomeObjectParses(c) ==
    \E i \in 1..Len(c) :
        /\ c[i] = "{"
        /\ \E j \in i..Len(c) :
              /\ c[j] = "}"
              /\ isValidJSON(SubSeq(c, i, j))
              /\ UnmarshalOK(SubSeq(c, i, j))

\* C23: from every reply text that wraps a valid JSON object in prose or
\* in a fenced code block the client extracts that object and parses it as
\* the result; when no balanced object of the text parses as the result
\* structure the outcome is a fatal, non-retryable failure.
C23_ExtractsWrappedObject ==
    Returned("parseContent")
    => /\ (/\ NoBrace(arg.pre) /\ NoBrace(arg.post)
           /\ isValidJSON(arg.obj) /\ UnmarshalOK(arg.obj))
          => /\ fnRet.err = Nil
             /\ fnRet.result.ErrorType = FieldValue(arg.obj, error_type)
             /\ fnRet.result.RootCause = FieldValue(arg.obj, root_cause)
       /\ ~SomeObjectParses(arg.pre \o arg.obj \o arg.post)
          => /\ fnRet.result = Nil
             /\ fnRet.err # Nil
             /\ ~fnRet.err.Retryable

\* C24: the mock client's Analyze succeeds for every log and every context
\* state, returns the same fixed advisory result on every call, performs
\* no I/O, and its HealthCheck always succeeds; through the Analyzer that
\* result yields success=true with source ai whenever no rule clears the
\* threshold.
C24_MockAlwaysSucceeds ==
    client = "mock"
    => /\ MockHealthCheck(ctx) = Nil
       /\ attempts = 0 /\ svcLog = <<>> /\ waits = <<>> /\ lastSvc = Nil
       /\ pc \in {"received", "done"}
       /\ clientRet # Nil
          => /\ clientRet.err = Nil
             /\ clientRet.result.ErrorType = "mock_error"
             /\ clientRet.result.Severity = "Medium"
             /\ clientRet.result.RootCause # ""
             /\ Len(clientRet.result.SuggestedActions) = 2
             /\ Len(clientRet.result.PreventionTips) = 1
       /\ (pc = "done" /\ ~AllSpaces(log)
           /\ ~(enableRules /\ Qualifying(sanitizedLog) # {}))
          => /\ aiCalls = 1
             /\ clientRet # Nil
             /\ retErr = Nil
             /\ response.Success
             /\ response.Source = "ai"
             /\ response.Error = ""
             /\ response.Result = clientRet.result

\* the context was cancelled before the request was processed, a rule
\* matched below the threshold, and the mock's result was returned
C24_Witness ==
    /\ client = "mock" /\ pc = "done" /\ ctx = "canceled"
    /\ cancelledAt = "received"
    /\ enableRules /\ MatchingRules(sanitizedLog) # {}
    /\ response.Source = "ai"
    /\ maxRetries = -1

\* ------------------------------------------------------------------- C25
\* C25: after any sequence of steps of concurrently interleaved requests,
\* the rule table (ids, triggers, confidences, pre-computed results) and
\* the compiled pattern list are what they were at construction.
C25_TablesUnchanged ==
    /\ ruleTable = NewRules(table)
    /\ patternList = NewPatterns(table)

\* one request answered by a rule while another one, which went to the
\* reasoning client, is waiting between two attempts
C25_Witness ==
    /\ workers # <<>>
    /\ workers[1].pc = "backoff"
    /\ workers[1].attempts = 1
    /\ workers[2].pc = "done"
    /\ workers[2].response.Success
    /\ workers[2].response.Source = "rules:r_kw"
    /\ ruleTable = NewRules(table)
    /\ patternList = NewPatterns(table)

\* ------------------------------------------------------------------- C26
\* the variables of a request with log l that runs alone and meets the
\* events evs
RECURSIVE Alone(_, _)
Alone(l, evs) ==
    IF evs = <<>>
    THEN NewWorker(l)
    ELSE LET w == Alone(l, SubSeq(evs, 1, Len(evs) - 1))
             e == evs[Len(evs)]
         IN  CASE e.kind = "start" -> Started(w)
               [] e.kind = "cancel" -> Cancelled(w)
               [] e.kind = "reply" ->
                      Attempted(<<w>>, 1, e.reply, e.rewound, e.consumed)
               [] e.kind = "timer" -> TimerFired(w)
               [] e.kind = "ctx_done" -> WaitCancelled(w)

EventCount(w, kind) ==
    Cardinality({k \in DOMAIN w.events : w.events[k].kind = kind})

\* C26: with several requests in progress through the same Analyzer and
\* client, under every interleaving each request's attempt counter, wait,
\* last error, number of attempts, waits and outcome are the ones it has
\* when it runs alone and meets the same replies, timers and cancellation.
C26_RequestsIndependent ==
    \A i \in DOMAIN workers :
        /\ workers[i] = Alone(workers[i].log, workers[i].events)
        /\ workers[i].attempts = EventCount(workers[i], "reply")
        /\ workers[i].waits =
               [k \in 1..EventCount(workers[i], "timer") |-> BackoffOf(k)]

\* two requests in their retry loops at once: the first waits after one
\* failed attempt, the second has waited and sent its second attempt
C26_Witness ==
    /\ workers # <<>>
    /\ workers[1].pc = "backoff"
    /\ workers[1].attempt = 1
    /\ workers[1].lastErr # Nil
    /\ workers[2].pc = "inflight"
    /\ workers[2].attempts = 1
    /\ workers[2].waits = <<BackoffOf(1)>>
    /\ workers[2].attempt = 1

\* ------------------------------------------------------------------- C27
\* the provenance values a response may carry with the rule table rs
Provenances(rs) ==
    {"ai"} \cup {"rules:" \o rs[k].ID : k \in DOMAIN rs}
           \cup {"rules_fallback:" \o rs[k].ID : k \in DOMAIN rs}

\* C27: every response Analyzer.Analyze returns is a consistent envelope:
\* a success carries a result, no error and a source that is rules:<id>,
\* rules_fallback:<id> or ai with <id> the id of a rule of the table; a
\* failure carries no result, no source and a non-empty error.
C27_ConsistentEnvelope ==
    pc = "done" =>
        /\ response # Nil
        /\ retErr = Nil
        /\ IF response.Success
           THEN /\ response.Result # Nil
                /\ response.Error = ""
                /\ response.Source \in Provenances(rules)
           ELSE /\ response.Result = Nil
                /\ response.Source = ""
                /\ response.Error # ""

\* a success of the reasoning client on the second attempt
C27_Witness ==
    /\ pc = "done"
    /\ response # Nil
    /\ response.Success
    /\ response.Source = "ai"
    /\ response.Result # Nil
    /\ attempts = 2

\* a failure returned after the client's error, with no rule to fall back on
C27_FailureReached ==
    /\ pc = "done"
    /\ response # Nil
    /\ ~response.Success
    /\ response.Error # ErrEmptyLog
    /\ aiCalls = 1

\* ------------------------------------------------------------------- C28
\* the first n characters of the trimmed log l
CutTo(l, n) ==
    LET t == TrimSpace(l)
    IN  IF Len(t) > n THEN SubSeq(t, 1, n) ELSE t

\* the response for the sanitized text t after the client returned ret
ResponseFor(t, ret) ==
    LET matches == EngineAnalyze(t)
    IN  IF enableRules /\ ShouldUseRuleResult(matches, threshold)
        THEN RuleResponse(matches, threshold).result
        ELSE AfterAI(ret.result, ret.err, enableRules, t, threshold).result

\* C28: a non-empty log larger than the ceiling is not rejected: the text
\* is cut to the ceiling and masked, rule checking and, if needed, the
\* reasoning client run on that text, the response is the one for that
\* text, and no LogTooLarge failure reaches the caller.
C28_OversizedTruncated ==
    (pc = "done" /\ ~IsEmpty(log) /\ Len(log) > maxSize) =>
        /\ sanitizeCalls = 1
        /\ stats.Truncated
        /\ sanitizedLog = maskSecrets(CutTo(log, maxSize))
        /\ retErr = Nil
        /\ response # Nil
        /\ response.Error # ErrLogTooLarge
        /\ (clientRet # Nil /\ clientRet.err # Nil =>
                clientRet.err.Err # ErrLogTooLarge)
        /\ (enableRules => ruleEvals >= 1)
        /\ LET fast == enableRules /\
                       ShouldUseRuleResult(EngineAnalyze(sanitizedLog), threshold)
           IN  /\ aiCalls = (IF fast THEN 0 ELSE 1)
               /\ response = (IF fast
                              THEN ResponseFor(sanitizedLog, Nil)
                              ELSE ResponseFor(sanitizedLog, clientRet))

\* a log the rules would answer in full is cut to a text they do not
\* answer, and the reasoning client answers for the cut text
C28_Witness ==
    /\ pc = "done"
    /\ enableRules
    /\ Len(TrimSpace(log)) > maxSize
    /\ Len(sanitizedLog) = maxSize
    /\ ShouldUseRuleResult(EngineAnalyze(TrimSpace(log)), threshold)
    /\ response # Nil
    /\ response.Success
    /\ response.Source = "ai"

\* ------------------------------------------------------------------- C29
\* C29: for every HTTP status other than 200 both network clients return
\* an error and no result, and classify it alike: the retry loop goes on
\* exactly when the status is 429 or at least 500; 400, 401, 403, 404 and
\* every other status end the loop.
C29_SameClassification ==
    Returned("Classify") =>
        /\ arg # 200
        /\ fnRet.openai.result = Nil /\ fnRet.openai.err # Nil
        /\ fnRet.gemini.result = Nil /\ fnRet.gemini.err # Nil
        /\ IsRetryable(fnRet.openai.err) = (arg = 429 \/ arg >= 500)
        /\ IsRetryable(fnRet.gemini.err) = (arg = 429 \/ arg >= 500)
        /\ ShouldRetry(fnRet.openai.err) = ShouldRetry(fnRet.gemini.err)
        /\ (arg = 429 => /\ fnRet.openai.err.Err = ErrRateLimited
                         /\ fnRet.gemini.err.Err = ErrRateLimited)
        /\ (arg >= 500 => /\ fnRet.openai.err.Err = ErrAIUnavailable
                          /\ fnRet.gemini.err.Err = ErrAIUnavailable)

\* a 408 Request Timeout is fatal for both clients
C29_Witness ==
    /\ Returned("Classify")
    /\ arg = 408
    /\ ~IsRetryable(fnRet.openai.err)
    /\ ~IsRetryable(fnRet.gemini.err)
    /\ fnRet.openai.err.Op = "ai_error"
    /\ fnRet.gemini.err.Op = "gemini_error"

\* ------------------------------------------------------------------- C30
\* C30: IsTooLarge is true exactly for a log strictly longer than the
\* ceiling (not for one of exactly the ceiling's length), IsEmpty exactly
\* for a log that is empty or made of whitespace only, and neither call
\* changes the sanitizer's ceiling or patterns.
C30_Predicates ==
    Returned("Predicates") =>
        /\ fnRet.tooLarge = (Len(arg) >= maxSize + 1)
        /\ (Len(arg) = maxSize => ~fnRet.tooLarge)
        /\ fnRet.empty = (\A i \in 1..Len(arg) : arg[i] \in WhiteSpace)
        /\ maxSize = MaxSize
        /\ patternList = NewPatterns(table)

\* a log of whitespace only, exactly as long as the ceiling: empty, and
\* not too large
C30_Witness ==
    /\ Returned("Predicates")
    /\ Len(arg) = maxSize
    /\ arg[1] = "\t"
    /\ fnRet.empty
    /\ ~fnRet.tooLarge

\* ------------------------------------------------------------------- C31
RECURSIVE MaskedFrom(_, _)
\* the number of matches maskSecrets replaces in text s from pattern k on:
\* each pattern's matches in the text as the patterns before it left it
MaskedFrom(s, k) ==
    IF Len(s) = 0 \/ k > Len(patterns) THEN 0
    ELSE IF "re" \in DOMAIN patterns[k]
         THEN ReCountFrom(s, 0, patterns[k].re)
              + MaskedFrom(ReReplaceFrom(s, 0, patterns[k].re), k + 1)
         ELSE CountFrom(s, 1, patterns[k])
              + MaskedFrom(ReplaceAllFrom(s, 1, patterns[k]), k + 1)

\* C31: the stats of SanitizeWithStats report the raw input's length as
\* original size, the returned text's length as sanitized size, and as
\* SecretsFound the number of secrets masked in the returned text, each
\* once and none of the part that truncation removed.
C31_StatsCountMasked ==
    Returned("SanitizeWithStats") =>
        /\ fnRet.stats.OriginalSize = Len(arg)
        /\ fnRet.stats.SanitizedSize = Len(fnRet.text)
        /\ fnRet.stats.SecretsFound = MaskedFrom(Truncate(TrimSpace(arg)), 1)

\* the two sizes alone are reported as stated
C31_SizesReported ==
    Returned("SanitizeWithStats") =>
        /\ fnRet.stats.OriginalSize = Len(arg)
        /\ fnRet.stats.SanitizedSize = Len(fnRet.text)

\* ------------------------------------------------------------------- C32
\* C32: for every implementation of the client interface injected into
\* the Analyzer, a result the client returns is passed through the
\* response validator before the request is resolved with source ai, and
\* no result the validator rejects is returned with success and source ai.
C32_ValidatedBeforeAI ==
    (pc = "done" /\ response # Nil /\ response.Success
                 /\ response.Source = "ai")
    => /\ ValidateCalled(client, lastSvc)
       /\ Validate(response.Result) = Nil

\* with the three shipped clients no result that the validator rejects is
\* returned with source ai
C32_NoRejectedResult ==
    (pc = "done" /\ response # Nil /\ response.Success
                 /\ response.Source = "ai")
    => Validate(response.Result) = Nil

C34_ClientTerminates ==
    [](pc \in {"inflight", "backoff"}
         => <>(pc = "done" /\ clientRet # Nil
                /\ (clientRet.err = Nil) # (clientRet.result = Nil)))

\* the loop ran out of retries: three attempts, two waits, then the error
C34_Witness ==
    /\ pc = "done"
    /\ client \in {"openai", "gemini"}
    /\ maxRetries = MaxRetriesBound
    /\ attempts = maxRetries + 1
    /\ Len(waits) = maxRetries
    /\ clientRet # Nil /\ clientRet.err # Nil

\* ------------------------------------------------------------------- C35
\* C35: with rules disabled the rule engine is never consulted, every
\* non-empty log goes to the reasoning client exactly once, no response
\* carries a rules: or rules_fallback: source, and a failure of the client
\* always ends in a failure response.
C35_RulesDisabled ==
    ~enableRules =>
        /\ ruleEvals = 0
        /\ aiCalls <= 1
        /\ (pc # "received" /\ ~IsEmpty(log) => aiCalls = 1)
        /\ (IsEmpty(log) => aiCalls = 0)
        /\ (response # Nil => response.Source \in {"", "ai"})
        /\ (pc = "done" /\ clientRet # Nil /\ clientRet.err # Nil
              => /\ ~response.Success
                 /\ response.Result = Nil
                 /\ response.Error = ErrorString(clientRet.err))

\* rules are off, the log is one a rule of the table answers, and the
\* client's failure is returned as a failure
C35_Witness ==
    /\ ~enableRules
    /\ pc = "done"
    /\ Len(EngineAnalyze(sanitizedLog)) > 0
    /\ GetBestMatch(EngineAnalyze(sanitizedLog), threshold) # Nil
    /\ aiCalls = 1 /\ ruleEvals = 0
    /\ clientRet # Nil /\ clientRet.err # Nil
    /\ response # Nil /\ ~response.Success

\* ------------------------------------------------------------------- C36
\* Config.Validate on a configuration whose AI.MaxRetries is mr and whose
\* other fields are valid: MaxRetries is not among the fields it checks,
\* and getIntOrDefault takes any integer strconv.Atoi parses
ConfigAccepts(mr) == mr \in Int

\* C36: for every MaxRetries that configuration validation accepts, a
\* network client's Analyze makes at least one request attempt and returns
\* a result with a nil error or a nil result with an error; it never
\* returns or dereferences a nil result together with a nil error.
C36_AtLeastOneAttempt ==
    (client \in {"openai", "gemini"} /\ ConfigAccepts(maxRetries)) =>
        /\ pc # "panic"
        /\ (clientRet # Nil =>
               /\ attempts >= 1
               /\ (clientRet.err = Nil) # (clientRet.result = Nil))

\* the same for the retry budgets that are not negative
C36_NonNegativeBudget ==
    (client \in {"openai", "gemini"} /\ maxRetries >= 0) =>
        /\ pc # "panic"
        /\ (clientRet # Nil =>
               /\ attempts >= 1
               /\ (clientRet.err = Nil) # (clientRet.result = Nil))

\* ------------------------------------------------------------------- C37
\* the last attempt of client c ended as the service's reply to the
\* complete request decides
ReplyDecides(c) ==
    (client = c /\ ctx = "active" /\ attempts >= 1
                /\ lastSvc.kind # "transport_error")
    => /\ result = ExecuteRequest(c, lastSvc, "active", FALSE).result
       /\ lastErr = ExecuteRequest(c, lastSvc, "active", FALSE).err

\* C37: in the OpenAI-compatible client every request attempt, retries
\* included, transmits the same complete request body as the first: a
\* retry never sends a request whose body an earlier attempt consumed, so
\* an attempt the service answers ends as that answer decides.
C37_SameBodyEveryAttempt == ReplyDecides("openai")

\* the Gemini client builds a fresh request for every attempt
C37_GeminiFreshRequest == ReplyDecides("gemini")

\* ------------------------------------------------------------------- C38
\* the ids of the rules that matched, in table order
MatchedIDs(ms) == [k \in 1..Len(ms) |-> ms[k].RuleID]

\* C38: a log that only mentions 'address already in use' in a hint, tip,
\* documentation or conditional sentence matches no rule of the default
\* table, while real port-binding errors match rule port_in_use.
C38_PortInUse ==
    Returned("MatchDefault") =>
        /\ (arg \in PortHintLogs => fnRet = <<>>)
        /\ (arg \in PortErrorLogs
              => Len(fnRet) > 0 /\ fnRet[1].RuleID = "port_in_use")

\* the real port-binding errors match port_in_use, and it first
C38_ErrorsMatch ==
    (Returned("MatchDefault") /\ arg \in PortErrorLogs)
    => Len(fnRet) > 0 /\ fnRet[1].RuleID = "port_in_use"

\* a log that mentions the phrase matches port_in_use
C38_HintsMatch ==
    (Returned("MatchDefault") /\ arg \in PortHintLogs)
    => MatchedIDs(fnRet) = <<"port_in_use">>

\* ------------------------------------------------------------------- C39
\* C39: the reasoning strategy is selected once at startup from the
\* configuration: mock mode selects the deterministic stand-in, otherwise
\* the configured provider (openai or gemini) decides which network
\* client serves every request.
C39_ProviderSelectsClient ==
    Returned("Startup") =>
        fnRet.client = (IF arg.mock THEN "mock" ELSE fnRet.provider)

\* mock mode selects the stand-in, and the provider openai its client
C39_MockAndOpenAI ==
    (Returned("Startup") /\ (arg.mock \/ fnRet.provider = "openai")) =>
        fnRet.client = (IF arg.mock THEN "mock" ELSE "openai")

\* ------------------------------------------------------------------- C40
\* C40: SanitizeWithStats reports truncated exactly when Sanitize removed
\* characters because of the ceiling; an input that exceeds the ceiling
\* only by surrounding whitespace and fits once trimmed is reported as
\* not truncated.
C40_TruncatedIffCut ==
    Returned("SanitizeWithStats") =>
        fnRet.stats.Truncated = (Len(TrimSpace(arg)) > maxSize)

\* for an input without surrounding whitespace the flag is as stated
C40_UnpaddedInputs ==
    (Returned("SanitizeWithStats") /\ TrimSpace(arg) = arg) =>
        fnRet.stats.Truncated = (Len(TrimSpace(arg)) > maxSize)

====
